---- MODULE Spec2Model ----
(***************************************************************************)
(* Model of the FHEVM instance lifecycle of the zamapp frontend:           *)
(*   - the useFhevm hook (frontend/src/hooks/useFhevm.ts): its React       *)
(*     state, refs and effects;                                            *)
(*   - createFhevmInstance (frontend/src/utils/fhevm.ts): one provisioning *)
(*     attempt, advanced one awaited step at a time;                       *)
(*   - RelayerSDKLoader (utils/fhevm/relayerSDKLoader.ts): the script      *)
(*     injection, its timers and the global window.relayerSDK object.      *)
(*                                                                         *)
(* React runs the passive effects of one commit in declaration order and   *)
(* applies the state updates they queue in the next render; that next      *)
(* render and its effects are one EffectPass step.  The cascade of         *)
(* re-renders triggered by an event runs to completion before a network    *)
(* reply, a timer or a new event is handled.                               *)
(***************************************************************************)
EXTENDS Integers, Sequences, FiniteSets, TLC

\* ---------------------------------------------------------------- bounds
MaxAttempts == 2      \* createFhevmInstance calls in one behaviour
MaxRefresh == 2       \* refresh() calls that bump _providerChanged

\* ------------------------------------------------------------- constants
SepoliaChainId == 11155111
HardhatChainId == 31337

NoProvider == "undefined"
Providers ==
    {"walletSepolia", "walletHardhat", "walletMainnet", "objectNoRequest"}
ChainHints == {SepoliaChainId, HardhatChainId}

\* chain id the transport answers to eth_chainId (walletMainnet answers 1)
ChainOf(p) ==
    CASE p = "walletSepolia" -> SepoliaChainId
      [] p = "walletHardhat" -> HardhatChainId
      [] OTHER -> 1

\* getChainId: the transport is an object with a callable request
\* (objectNoRequest is an object without one)
HasRequest(p) == p # "objectNoRequest"

NoInstance == [by |-> 0, kind |-> "undefined"]
NoError == [by |-> 0, code |-> "undefined"]

\* kinds of object the CDN script may leave in window.relayerSDK
SdkKinds == {"good", "empty", "badAcl"}

VARIABLES
    \* props of the hook
    provider, chainId, enabled,
    \* useState cells
    instance, status, error, isRunning, providerChanged,
    \* useRef cells
    abortRef, providerRef, chainIdRef,
    \* AbortControllers created so far (1..nCtrl) and the aborted ones
    nCtrl, aborted,
    \* React bookkeeping: mounted, dependencies of the last run of each effect
    mounted, depRefresh, depEnabled, depMain,
    \* createFhevmInstance calls, in call order; a settled call keeps its
    \* signal only
    attempts,
    \* the last step settled a call whose handler returned without writing
    \* the outcome into the hook
    discarded,
    \* browser: window.relayerSDK (index into sdkObjs, 0 absent), the SDK
    \* objects ever created, the script elements ever created (timedOut: the
    \* call that went into error with a load timeout on the element, 0 if
    \* none)
    winSdk, sdkObjs, scripts,
    \* history: an external step failed; an assertion of the hook failed
    extFail, assertFailed

hookVars == <<instance, status, error, isRunning, providerChanged,
              abortRef, providerRef, chainIdRef, nCtrl, aborted>>
propVars == <<provider, chainId, enabled>>
reactVars == <<mounted, depRefresh, depEnabled, depMain>>
envVars == <<winSdk, sdkObjs, scripts>>

\* the library of utils/fhevm exercised apart from the hook: the fields of
\* the object under exercise (part names it; "none" while the hook runs)
VARIABLE lib

vars == <<propVars, hookVars, reactVars, attempts, discarded, envVars,
          extFail, assertFailed, lib>>

NoLib == [part |-> "none"]

\* ------------------------------------------------------------ validation
\* the function members of the three kinds of SDK object
SdkFunctions(kind) ==
    CASE kind = "good" -> {"initSDK", "createInstance"}
      [] kind = "badAcl" -> {"initSDK", "createInstance"}
      [] OTHER -> {}

\* a candidate for window.relayerSDK: its typeof (null apart), the names of
\* its own properties that are functions, the names of the other ones
SdkObject(kind) ==
    [type |-> "object", methods |-> SdkFunctions(kind),
     others |-> IF kind = "empty" THEN {} ELSE {"SepoliaConfig"}]

RequiredMethods == {"initSDK", "createInstance"}

\* isValidRelayerSDK on a candidate
isValidRelayerSDKObject(obj) ==
    IF obj.type # "object"
    THEN FALSE
    ELSE LET availableMethods == obj.methods
             foundRequiredMethods ==
                 Cardinality(availableMethods \cap RequiredMethods)
             totalProps == Cardinality(obj.methods \cup obj.others)
         IN IF Cardinality(availableMethods) = 0 /\ foundRequiredMethods = 0
            THEN FALSE
            ELSE IF totalProps = 0
            THEN FALSE
            ELSE TRUE

isValidRelayerSDK(kind) ==
    /\ kind \in SdkKinds
    /\ isValidRelayerSDKObject(SdkObject(kind))

isValidFhevmWindow(w, objs) ==
    /\ w # 0
    /\ isValidRelayerSDK(objs[w].kind)

isFhevmInitialized(w, objs) ==
    /\ isValidFhevmWindow(w, objs)
    /\ objs[w].init

\* relayerSDK.SepoliaConfig.aclContractAddress of a kind of SDK object: 0x and
\* 40 hex digits, or (badAcl) 0x and 40 characters of which the last is no
\* hex digit
aclContractAddress(kind) ==
    [type |-> "string",
     text |-> <<"0", "x">>
              \o [i \in 1..39 |-> IF i % 3 = 0 THEN "A"
                                  ELSE IF i % 3 = 1 THEN "1" ELSE "f"]
              \o <<IF kind = "good" THEN "e" ELSE "g">>]

\* the characters of [0-9a-fA-F]
HexPattern ==
    {"0", "1", "2", "3", "4", "5", "6", "7", "8", "9", "a", "b", "c", "d",
     "e", "f", "A", "B", "C", "D", "E", "F"}

\* variant of isValidAddress that checks the prefix only
isValidAddress_PrefixOnly(address) ==
    IF address.type # "string"
    THEN FALSE
    ELSE /\ Len(address.text) >= 2
         /\ SubSeq(address.text, 1, 2) = <<"0", "x">>

\* isValidAddress: a string that starts with 0x, has length 42 and matches
\* /^0x[0-9a-fA-F]{40}$/
isValidAddress(address) ==
    IF address.type # "string"
    THEN FALSE
    ELSE IF ~(/\ Len(address.text) >= 2
              /\ SubSeq(address.text, 1, 2) = <<"0", "x">>)
    THEN FALSE
    ELSE IF Len(address.text) # 42
    THEN FALSE
    ELSE \A i \in 3..42 : address.text[i] \in HexPattern

\* ------------------------------------------------------------ hook state
Hook ==
    [instance |-> instance, status |-> status, error |-> error,
     isRunning |-> isRunning, providerChanged |-> providerChanged,
     abortRef |-> abortRef, providerRef |-> providerRef,
     chainIdRef |-> chainIdRef, nCtrl |-> nCtrl, aborted |-> aborted,
     attempts |-> attempts]

SetHook(h) ==
    /\ instance' = h.instance
    /\ status' = h.status
    /\ error' = h.error
    /\ isRunning' = h.isRunning
    /\ providerChanged' = h.providerChanged
    /\ abortRef' = h.abortRef
    /\ providerRef' = h.providerRef
    /\ chainIdRef' = h.chainIdRef
    /\ nCtrl' = h.nCtrl
    /\ aborted' = h.aborted
    /\ attempts' = h.attempts

NewAttempt(sig, prov) ==
    [sig |-> sig, prov |-> prov, pc |-> "chainId", notes |-> <<>>,
     script |-> 0, obj |-> 0, res |-> "pending", applied |-> FALSE]

\* what remains of a settled call: the promise is garbage once its handlers
\* have run, the signal object lives on in the controller
Forget(att) ==
    [sig |-> att.sig, prov |-> NoProvider, pc |-> "done", notes |-> <<>>,
     script |-> 0, obj |-> 0, res |-> "settled", applied |-> FALSE]

\* variant of refresh that drops the controller without aborting it
refresh_NoAbort(h, p, c) ==
    [h EXCEPT !.abortRef = 0,
              !.providerRef = p,
              !.chainIdRef = c,
              !.instance = NoInstance,
              !.error = NoError,
              !.status = "idle",
              !.providerChanged = IF p # NoProvider THEN @ + 1 ELSE @]

\* variant of refresh that leaves the instance in place
refresh_KeepInstance(h, p, c) ==
    LET h1 == IF h.abortRef # 0
              THEN [h EXCEPT !.aborted = @ \cup {h.abortRef},
                             !.abortRef = 0]
              ELSE h
    IN [h1 EXCEPT !.providerRef = p,
                  !.chainIdRef = c,
                  !.error = NoError,
                  !.status = "idle",
                  !.providerChanged = IF p # NoProvider THEN @ + 1 ELSE @]

\* variant of refresh that aborts the controller and keeps it in the ref
refresh_KeepController(h, p, c) ==
    LET h1 == IF h.abortRef # 0
              THEN [h EXCEPT !.aborted = @ \cup {h.abortRef}]
              ELSE h
    IN [h1 EXCEPT !.providerRef = p,
                  !.chainIdRef = c,
                  !.instance = NoInstance,
                  !.error = NoError,
                  !.status = "idle",
                  !.providerChanged =
                      IF p # NoProvider THEN @ + 1 ELSE @]

\* refresh(): abort and drop the current controller, take over the props,
\* reset the state, bump _providerChanged when a provider is present
refresh(h, p, c) ==
    LET h1 == IF h.abortRef # 0
              THEN [h EXCEPT !.aborted = @ \cup {h.abortRef},
                             !.abortRef = 0]
              ELSE h
    IN [h1 EXCEPT !.providerRef = p,
                  !.chainIdRef = c,
                  !.instance = NoInstance,
                  !.error = NoError,
                  !.status = "idle",
                  !.providerChanged =
                      IF p # NoProvider THEN @ + 1 ELSE @]

\* the controller the main effect uses: the current one, or a new one
MainController(h) == IF h.abortRef = 0 THEN h.nCtrl + 1 ELSE h.abortRef

\* variant of the main effect whose disabled branch drops the controller
\* without aborting it
mainEffect_NoAbortOnDisable(h, running) ==
    IF ~running
    THEN [h EXCEPT !.abortRef = 0,
                   !.instance = NoInstance,
                   !.error = NoError,
                   !.status = "idle"]
    ELSE IF h.providerRef = NoProvider
    THEN [h EXCEPT !.instance = NoInstance,
                   !.error = NoError,
                   !.status = "idle"]
    ELSE LET c == IF h.abortRef = 0 THEN h.nCtrl + 1 ELSE h.abortRef
         IN [h EXCEPT !.abortRef = c,
                      !.nCtrl = IF h.abortRef = 0 THEN @ + 1 ELSE @,
                      !.status = "loading",
                      !.error = NoError,
                      !.attempts =
                          Append(@, [sig |-> c, prov |-> h.providerRef,
                                     pc |-> "chainId", notes |-> <<>>,
                                     script |-> 0, obj |-> 0,
                                     res |-> "pending", applied |-> FALSE])]

\* main effect, run with the _isRunning value of its render
mainEffect(h, running) ==
    IF ~running
    THEN [h EXCEPT !.aborted = IF h.abortRef # 0
                               THEN @ \cup {h.abortRef} ELSE @,
                   !.abortRef = 0,
                   !.instance = NoInstance,
                   !.error = NoError,
                   !.status = "idle"]
    ELSE IF h.providerRef = NoProvider
    THEN [h EXCEPT !.instance = NoInstance,
                   !.error = NoError,
                   !.status = "idle"]
    ELSE LET c == MainController(h)
         IN [h EXCEPT !.abortRef = c,
                      !.nCtrl = IF h.abortRef = 0 THEN @ + 1 ELSE @,
                      !.status = "loading",
                      !.error = NoError,
                      !.attempts = Append(@, NewAttempt(c, h.providerRef))]

\* the main effect would call createFhevmInstance
MainStarts(h, running) == running /\ h.providerRef # NoProvider

\* ------------------------------------------------- createFhevmInstance
Aborted(att, ab) == att.sig \in ab

Reject(att, code) == [att EXCEPT !.pc = "done", !.res = code]

Resolve(att, kind) == [att EXCEPT !.pc = "done", !.res = kind]

Notify(att, n) == [att EXCEPT !.notes = Append(@, n)]

Out(att, w, objs, scr) ==
    [att |-> att, winSdk |-> w, sdkObjs |-> objs, scripts |-> scr]

ScriptInDom(scr) == \E i \in 1..Len(scr) : scr[i].inDom

RemoveScripts(scr) == [i \in 1..Len(scr) |-> [scr[i] EXCEPT !.inDom = FALSE]]

\* read the ACL address of window.relayerSDK, validate it, call
\* createInstance
realCreate(att, w, objs, scr) ==
    IF w = 0 \/ objs[w].kind = "empty"
    THEN Out(Reject(att, "TypeError"), w, objs, scr)
    ELSE IF ~isValidAddress(aclContractAddress(objs[w].kind))
    THEN Out(Reject(att, "InvalidAclAddress"), w, objs, scr)
    ELSE Out([Notify(att, "creating") EXCEPT !.pc = "createInstance",
                                             !.obj = w],
             w, objs, scr)

\* initFhevmSDK unless the SDK object carries __initialized__
realInit(att, w, objs, scr) ==
    IF isFhevmInitialized(w, objs)
    THEN realCreate(att, w, objs, scr)
    ELSE IF ~isValidFhevmWindow(w, objs)
    THEN Out(Reject(Notify(att, "sdk-initializing"), "SdkNotAvailable"),
             w, objs, scr)
    ELSE Out([Notify(att, "sdk-initializing") EXCEPT !.pc = "sdkInit",
                                                     !.obj = w],
             w, objs, scr)

\* variant of load() that deletes the invalid object but leaves the script
\* elements in the document
loaderLoad_KeepScripts(att, w, objs, scr) ==
    LET invalid == w # 0 /\ ~isValidRelayerSDK(objs[w].kind)
        w1 == IF invalid THEN 0 ELSE w
    IN IF w # 0 /\ ~invalid
       THEN realInit(Notify(att, "sdk-loaded"), w, objs, scr)
       ELSE IF ScriptInDom(scr)
       THEN Out([att EXCEPT !.pc = "loadExisting"], w1, objs, scr)
       ELSE Out([att EXCEPT !.pc = "loadScript",
                            !.script = Len(scr) + 1],
                w1, objs,
                Append(scr, [inDom |-> TRUE, st |-> "loading",
                             timedOut |-> 0]))

\* RelayerSDKLoader.load() on a new loader, then _performLoad
loaderLoad(att, w, objs, scr) ==
    LET invalid == w # 0 /\ ~isValidRelayerSDK(objs[w].kind)
        w1 == IF invalid THEN 0 ELSE w
        scr1 == IF invalid THEN RemoveScripts(scr) ELSE scr
    IN IF w # 0 /\ ~invalid
       THEN realInit(Notify(att, "sdk-loaded"), w, objs, scr)
       ELSE IF ScriptInDom(scr1)
       THEN Out([att EXCEPT !.pc = "loadExisting"], w1, objs, scr1)
       ELSE Out([att EXCEPT !.pc = "loadScript",
                            !.script = Len(scr1) + 1],
                w1, objs,
                Append(scr1, [inDom |-> TRUE, st |-> "loading",
                              timedOut |-> 0]))

\* load the SDK unless window.relayerSDK is valid
realLoad(att, w, objs, scr) ==
    IF isValidFhevmWindow(w, objs)
    THEN realInit(att, w, objs, scr)
    ELSE loaderLoad(Notify(att, "sdk-loading"), w, objs, scr)

\* the real branch and the unsupported-network error
realEntry(att, ab, w, objs, scr) ==
    IF ChainOf(att.prov) # SepoliaChainId
    THEN Out(Reject(att, "UnsupportedNetwork"), w, objs, scr)
    ELSE IF Aborted(att, ab)
    THEN Out(Reject(att, "FhevmAbortError"), w, objs, scr)
    ELSE realLoad(att, w, objs, scr)

\* resolve(): mock iff the chain id is in the merged mock table
DefaultMockChains == {HardhatChainId}

isMock(c) == c \in DefaultMockChains

\* continuation of createFhevmInstance after resolve()
afterResolve(att, ab, w, objs, scr) ==
    IF Aborted(att, ab)
    THEN Out(Reject(att, "FhevmAbortError"), w, objs, scr)
    ELSE IF isMock(ChainOf(att.prov))
    THEN Out([att EXCEPT !.pc = "clientVersion"], w, objs, scr)
    ELSE realEntry(att, ab, w, objs, scr)

\* continuation after an awaited step of the real branch
afterAwait(att, ab, w, objs, scr, note, next) ==
    IF Aborted(att, ab)
    THEN Out(Reject(att, "FhevmAbortError"), w, objs, scr)
    ELSE IF next = "init"
    THEN realInit(Notify(att, note), w, objs, scr)
    ELSE realCreate(Notify(att, note), w, objs, scr)

\* continuation after web3_clientVersion settled with v: a Hardhat version
\* goes on to the metadata query; another version makes the probe return
\* undefined; a failed request makes getWeb3Client throw
\* WEB3_CLIENTVERSION_ERROR inside the try block of the mock branch, whose
\* catch block only logs; both fall through to the real branch
afterClientVersion(att, v, ab, w, objs, scr) ==
    IF v = "hardhat"
    THEN Out([att EXCEPT !.pc = "metadata"], w, objs, scr)
    ELSE realEntry(att, ab, w, objs, scr)

\* continuation after createFhevmMockInstance resolved: throwIfAborted
\* inside the try block, whose catch block swallows the abort error and
\* falls through to the real branch
afterMockCreated(att, ab, w, objs, scr) ==
    IF Aborted(att, ab)
    THEN realEntry(att, ab, w, objs, scr)
    ELSE Out(Resolve(att, "mock"), w, objs, scr)

\* continuation after createInstance of the SDK resolved
afterCreateInstance(att, ab, w, objs, scr) ==
    IF Aborted(att, ab)
    THEN Out(Reject(att, "FhevmAbortError"), w, objs, scr)
    ELSE Out(Resolve(att, "real"), w, objs, scr)

\* ------------------------------------------------- then / catch of the hook
IsError(res) == res \notin {"pending", "real", "mock"}

\* variant of the handlers without the thisSignal.aborted guard
Handled_NoAbortGuard(h, a, att) ==
    IF att.pc # "done" \/ att.prov # h.providerRef
    THEN h
    ELSE IF att.res \notin {"pending", "real", "mock"}
    THEN [h EXCEPT !.instance = NoInstance,
                   !.error = [by |-> a, code |-> att.res],
                   !.status = "error",
                   !.attempts[a].applied = TRUE]
    ELSE [h EXCEPT !.instance = [by |-> a, kind |-> att.res],
                   !.error = NoError,
                   !.status = "ready",
                   !.attempts[a].applied = TRUE]

\* variant of the handlers without the assertion on the provider
Handled_NoProviderAssert(h, a, att) ==
    IF att.pc # "done" \/ Aborted(att, h.aborted)
    THEN h
    ELSE IF IsError(att.res)
    THEN [h EXCEPT !.instance = NoInstance,
                   !.error = [by |-> a, code |-> att.res],
                   !.status = "error",
                   !.attempts[a].applied = TRUE]
    ELSE [h EXCEPT !.instance = [by |-> a, kind |-> att.res],
                   !.error = NoError,
                   !.status = "ready",
                   !.attempts[a].applied = TRUE]

\* the state the handlers leave for attempt number a; applied records that
\* the handler wrote the outcome into the state of the hook
\* variant of the handlers whose catch handler writes nothing into the hook
Handled_ErrorDropped(h, a, att) ==
    IF att.pc # "done" \/ Aborted(att, h.aborted)
       \/ att.prov # h.providerRef
       \/ IsError(att.res)
    THEN h
    ELSE [h EXCEPT !.instance = [by |-> a, kind |-> att.res],
                   !.error = NoError,
                   !.status = "ready",
                   !.attempts[a].applied = TRUE]

Handled(h, a, att) ==
    IF att.pc # "done" \/ Aborted(att, h.aborted)
       \/ att.prov # h.providerRef
    THEN h
    ELSE IF IsError(att.res)
    THEN [h EXCEPT !.instance = NoInstance,
                   !.error = [by |-> a, code |-> att.res],
                   !.status = "error",
                   !.attempts[a].applied = TRUE]
    ELSE [h EXCEPT !.instance = [by |-> a, kind |-> att.res],
                   !.error = NoError,
                   !.status = "ready",
                   !.attempts[a].applied = TRUE]

\* variant of the handlers that asserts before the thisSignal.aborted guard
AssertFails_Unguarded(h, att) ==
    /\ att.pc = "done"
    /\ att.prov # h.providerRef

AssertFails(h, att) ==
    /\ att.pc = "done"
    /\ ~Aborted(att, h.aborted)
    /\ att.prov # h.providerRef

\* an attempt step: the attempt record and the browser after the step,
\* and the handlers of the hook when the step settled the promise
Advance(a, out) ==
    /\ LET h == Handled([Hook EXCEPT !.attempts[a] = out.att], a, out.att)
       IN IF out.att.pc = "done"
          THEN /\ SetHook([h EXCEPT !.attempts[a] = Forget(@)])
               /\ discarded' = ~h.attempts[a].applied
          ELSE /\ SetHook(h)
               /\ discarded' = FALSE
    /\ winSdk' = out.winSdk
    /\ sdkObjs' = out.sdkObjs
    /\ scripts' = out.scripts
    /\ assertFailed' = (assertFailed \/ AssertFails(Hook, out.att))
    /\ UNCHANGED <<propVars, reactVars, lib>>

\* ----------------------------------------------------------------- React
Quiescent ==
    /\ mounted
    /\ depRefresh = <<provider, chainId>>
    /\ depEnabled = enabled
    /\ depMain = <<isRunning, providerChanged>>

\* getChainId has thrown for a transport without request and the rejection
\* of the call is still on its way through the promise chain
Thrown(att) == att.pc = "chainId" /\ ~HasRequest(att.prov)

\* events, network replies and timers are tasks: they are handled between
\* commits and after the promise jobs of the calls that failed at once
Settled ==
    /\ Quiescent
    /\ \A a \in 1..Len(attempts) : ~Thrown(attempts[a])

HookInit ==
    /\ provider \in Providers \cup {NoProvider}
    /\ chainId \in ChainHints
    /\ enabled \in BOOLEAN
    /\ instance = NoInstance
    /\ status = "idle"
    /\ error = NoError
    /\ isRunning = enabled
    /\ providerChanged = 0
    /\ abortRef = 0
    /\ providerRef = provider
    /\ chainIdRef = chainId
    /\ nCtrl = 0
    /\ aborted = {}
    /\ mounted = FALSE
    /\ depRefresh = <<provider, chainId>>
    /\ depEnabled = enabled
    /\ depMain = <<isRunning, providerChanged>>
    /\ attempts = <<>>
    /\ discarded = FALSE
    /\ winSdk = 0
    /\ sdkObjs = <<>>
    /\ scripts = <<>>
    /\ extFail = FALSE
    /\ assertFailed = FALSE

\* the hook before its first commit; the library apart from it is not used
Init ==
    /\ HookInit
    /\ lib = NoLib

\* the passive effects of one commit, in declaration order
Effects(first) ==
    LET runRefresh == first \/ depRefresh # <<provider, chainId>>
        runEnabled == first \/ depEnabled # enabled
        runMain == first \/ depMain # <<isRunning, providerChanged>>
        h1 == IF runRefresh THEN refresh(Hook, provider, chainId) ELSE Hook
        h2 == IF runEnabled THEN [h1 EXCEPT !.isRunning = enabled] ELSE h1
        h3 == IF runMain THEN mainEffect(h2, isRunning) ELSE h2
    IN /\ (runMain /\ MainStarts(h2, isRunning))
              => Len(attempts) < MaxAttempts
       /\ SetHook(h3)
       /\ depRefresh' = <<provider, chainId>>
       /\ depEnabled' = enabled
       /\ depMain' = <<isRunning, providerChanged>>
       /\ discarded' = FALSE
       /\ UNCHANGED <<propVars, envVars, extFail, assertFailed, lib>>

Mount ==
    /\ ~mounted
    /\ mounted' = TRUE
    /\ Effects(TRUE)

EffectPass ==
    /\ mounted
    /\ ~Quiescent
    /\ mounted' = mounted
    /\ Effects(FALSE)

CanStart == Len(attempts) < MaxAttempts /\ providerChanged < MaxRefresh

SetProvider(p) ==
    /\ Settled
    /\ p # provider
    /\ p # NoProvider => CanStart
    /\ provider' = p
    /\ discarded' = FALSE
    /\ UNCHANGED <<chainId, enabled, hookVars, reactVars, attempts, envVars,
                   extFail, assertFailed, lib>>

SetChainId(c) ==
    /\ Settled
    /\ c # chainId
    /\ CanStart
    /\ chainId' = c
    /\ discarded' = FALSE
    /\ UNCHANGED <<provider, enabled, hookVars, reactVars, attempts, envVars,
                   extFail, assertFailed, lib>>

SetEnabled(e) ==
    /\ Settled
    /\ e # enabled
    /\ e => CanStart
    /\ enabled' = e
    /\ discarded' = FALSE
    /\ UNCHANGED <<provider, chainId, hookVars, reactVars, attempts, envVars,
                   extFail, assertFailed, lib>>

CallRefresh ==
    /\ Settled
    /\ CanStart
    /\ SetHook(refresh(Hook, provider, chainId))
    /\ discarded' = FALSE
    /\ UNCHANGED <<propVars, reactVars, envVars, extFail, assertFailed,
                   lib>>

\* ------------------------------------------- steps of createFhevmInstance
Pending(a, pc) ==
    /\ a \in 1..Len(attempts)
    /\ attempts[a].pc = pc
    /\ Settled

\* getChainId threw before any request: the rejection reaches the handlers
\* of the hook as a promise job, before or after the next commit
GetChainIdThrows(a) ==
    /\ mounted
    /\ a \in 1..Len(attempts)
    /\ Thrown(attempts[a])
    /\ UNCHANGED extFail
    /\ Advance(a, Out(Reject(attempts[a], "InvalidProvider"), winSdk,
                      sdkObjs, scripts))

\* eth_chainId answered (or failed) for attempt a
ChainIdReply(a, ok) ==
    /\ Pending(a, "chainId")
    /\ extFail' = (extFail \/ ~ok)
    /\ Advance(a, IF ok
                  THEN afterResolve(attempts[a], aborted, winSdk, sdkObjs,
                                    scripts)
                  ELSE Out(Reject(attempts[a], "ChainIdError"), winSdk,
                           sdkObjs, scripts))

ClientVersions == {"hardhat", "other", "error"}

\* web3_clientVersion answered: the probe goes on only for a Hardhat node;
\* every other outcome falls through to the real branch
ClientVersionReply(a, v) ==
    /\ Pending(a, "clientVersion")
    /\ extFail' = (extFail \/ v # "hardhat")
    /\ Advance(a, afterClientVersion(attempts[a], v, aborted, winSdk,
                                     sdkObjs, scripts))

MetadataReplies == {"wellformed", "shortHex", "missing", "error"}

\* variant of the probe that takes no metadata for valid
MetadataAccepted_None(m) == FALSE

\* the probe accepts metadata whose three fields are strings starting 0x
MetadataAccepted(m) == m \in {"wellformed", "shortHex"}

MetadataReply(a, m) ==
    /\ Pending(a, "metadata")
    /\ extFail' = (extFail \/ m # "wellformed")
    /\ Advance(a, IF MetadataAccepted(m)
                  THEN Out([Notify(attempts[a], "creating")
                               EXCEPT !.pc = "mockCreate"],
                           winSdk, sdkObjs, scripts)
                  ELSE realEntry(attempts[a], aborted, winSdk, sdkObjs,
                                 scripts))

\* the mock module is imported and createFhevmMockInstance resolved; an
\* abort detected here is thrown inside the try block and swallowed
MockCreated(a) ==
    /\ Pending(a, "mockCreate")
    /\ UNCHANGED extFail
    /\ Advance(a, afterMockCreated(attempts[a], aborted, winSdk, sdkObjs,
                                   scripts))

\* the attempt whose loader listens to script s
Listener(s) ==
    {a \in 1..Len(attempts) :
        attempts[a].pc = "loadScript" /\ attempts[a].script = s}

\* the CDN script executes, sets window.relayerSDK and fires onload
ScriptLoad(s, kind) ==
    /\ s \in 1..Len(scripts)
    /\ scripts[s].st = "loading"
    /\ Settled
    /\ scripts' = [scripts EXCEPT ![s].st = "loaded"]
    /\ sdkObjs' = Append(sdkObjs, [kind |-> kind, init |-> FALSE])
    /\ winSdk' = Len(sdkObjs) + 1
    /\ attempts' = [a \in 1..Len(attempts) |->
                       IF a \in Listener(s)
                       THEN [attempts[a] EXCEPT !.pc = "loadSettle"]
                       ELSE attempts[a]]
    /\ extFail' = (extFail \/ kind # "good")
    /\ discarded' = FALSE
    /\ UNCHANGED <<propVars, hookVars, reactVars, assertFailed, lib>>

\* the script fails to load: onerror of the listening loader
ScriptError(s) ==
    /\ s \in 1..Len(scripts)
    /\ scripts[s].st = "loading"
    /\ Settled
    /\ extFail' = TRUE
    /\ IF Listener(s) = {}
       THEN /\ scripts' = [scripts EXCEPT ![s].st = "failed"]
            /\ discarded' = FALSE
            /\ UNCHANGED <<propVars, hookVars, reactVars, attempts, winSdk,
                           sdkObjs, assertFailed, lib>>
       ELSE LET a == CHOOSE x \in Listener(s) : TRUE
            IN Advance(a, Out(Reject(attempts[a], "LoadFailed"), winSdk,
                              sdkObjs,
                              [scripts EXCEPT ![s].st = "failed"]))

\* the 30 s timer of _performLoad fires before onload / onerror; the
\* element stays in the document
LoadTimeout(a) ==
    /\ Pending(a, "loadScript")
    /\ extFail' = TRUE
    /\ Advance(a, Out(Reject(attempts[a], "LoadTimeout"), winSdk, sdkObjs,
                      IF Aborted(attempts[a], aborted)
                         \/ attempts[a].prov # providerRef
                      THEN scripts
                      ELSE [scripts EXCEPT
                               ![attempts[a].script].timedOut = a]))

\* variant of the timer after onload that resolves without validating
SettleTimer_NoValidation(a) ==
    /\ Pending(a, "loadSettle")
    /\ UNCHANGED extFail
    /\ Advance(a, afterAwait(attempts[a], aborted, winSdk, sdkObjs, scripts,
                             "sdk-loaded", "init"))

\* the 50 ms timer after onload: validate window.relayerSDK
SettleTimer(a) ==
    /\ Pending(a, "loadSettle")
    /\ UNCHANGED extFail
    /\ Advance(a, IF isValidFhevmWindow(winSdk, sdkObjs)
                  THEN afterAwait(attempts[a], aborted, winSdk, sdkObjs,
                                  scripts, "sdk-loaded", "init")
                  ELSE Out(Reject(attempts[a], "LoadInvalid"), winSdk,
                           sdkObjs, scripts))

\* the 100 ms timer of a load that found a script element in the document
ExistingTimer(a) ==
    /\ Pending(a, "loadExisting")
    /\ UNCHANGED extFail
    /\ Advance(a, IF isValidFhevmWindow(winSdk, sdkObjs)
                  THEN afterAwait(attempts[a], aborted, winSdk, sdkObjs,
                                  scripts, "sdk-loaded", "init")
                  ELSE Out(Reject(attempts[a], "ScriptExistsInvalid"),
                           winSdk, sdkObjs, scripts))

InitResults == {"true", "false", "throw"}

\* initSDK settled: its result is stored in __initialized__ of the object
\* it was called on
InitReply(a, r) ==
    /\ Pending(a, "sdkInit")
    /\ extFail' = (extFail \/ r # "true")
    /\ LET objs == IF r = "throw" THEN sdkObjs
                   ELSE [sdkObjs EXCEPT ![attempts[a].obj].init = (r = "true")]
       IN Advance(a, IF r = "true"
                     THEN afterAwait(attempts[a], aborted, winSdk, objs,
                                     scripts, "sdk-initialized", "create")
                     ELSE Out(Reject(attempts[a], "InitFailed"), winSdk,
                              objs, scripts))

\* createInstance of the SDK settled
CreateReply(a, ok) ==
    /\ Pending(a, "createInstance")
    /\ extFail' = (extFail \/ ~ok)
    /\ Advance(a, IF ~ok
                  THEN Out(Reject(attempts[a], "CreateInstanceError"),
                           winSdk, sdkObjs, scripts)
                  ELSE afterCreateInstance(attempts[a], aborted, winSdk,
                                           sdkObjs, scripts))

Attempts == 1..MaxAttempts

Next ==
    \/ Mount
    \/ EffectPass
    \/ \E p \in Providers \cup {NoProvider} : SetProvider(p)
    \/ \E c \in ChainHints : SetChainId(c)
    \/ \E e \in BOOLEAN : SetEnabled(e)
    \/ CallRefresh
    \/ \E a \in Attempts : GetChainIdThrows(a)
    \/ \E a \in Attempts, ok \in BOOLEAN : ChainIdReply(a, ok)
    \/ \E a \in Attempts, v \in ClientVersions : ClientVersionReply(a, v)
    \/ \E a \in Attempts, m \in MetadataReplies : MetadataReply(a, m)
    \/ \E a \in Attempts : MockCreated(a)
    \/ \E s \in Attempts, k \in SdkKinds : ScriptLoad(s, k)
    \/ \E s \in Attempts : ScriptError(s)
    \/ \E a \in Attempts : LoadTimeout(a)
    \/ \E a \in Attempts : SettleTimer(a)
    \/ \E a \in Attempts : ExistingTimer(a)
    \/ \E a \in Attempts, r \in InitResults : InitReply(a, r)
    \/ \E a \in Attempts, ok \in BOOLEAN : CreateReply(a, ok)

Spec == Init /\ [][Next]_vars

\* ================================================================ claims
AttemptIds == 1..Len(attempts)

\* attempt a is pending and its signal is not aborted
Live(a) == attempts[a].pc # "done" /\ attempts[a].sig \notin aborted

\* attempt a settles in this step
Settles(a) == attempts[a].pc # "done" /\ attempts'[a].pc = "done"

LoadPcs == {"loadScript", "loadSettle", "loadExisting"}

\* C1: in every reachable state at most one pending createFhevmInstance
\* call has a signal that is not aborted.
C1_AtMostOneLiveAttempt ==
    Cardinality({a \in AttemptIds : Live(a)}) <= 1

\* C2: when an attempt settles after a later attempt was started, its
\* completion leaves instance, status and error unchanged.
C2_SupersededOutcomeDiscarded ==
    [][\A a \in AttemptIds :
          (Settles(a) /\ a < Len(attempts))
              => UNCHANGED <<instance, status, error>>]_vars

\* C3: once the hook has processed enabled = false or an undefined
\* provider, every attempt is cancelled and the state is idle with no
\* instance and no error, and it stays so whatever attempt completes later.
C3_DisabledStaysIdle ==
    (Quiescent /\ (~enabled \/ provider = NoProvider))
        => /\ status = "idle"
           /\ instance = NoInstance
           /\ error = NoError
           /\ \A a \in AttemptIds : attempts[a].sig \in aborted

\* an attempt started while enabled was cancelled by disabling the hook and
\* has completed since; the state is still idle
C3_Witness ==
    /\ Quiescent
    /\ ~enabled
    /\ provider # NoProvider
    /\ providerChanged = 1
    /\ status = "idle"
    /\ discarded

\* C4: ready carries an instance and no error, error carries an error and
\* no instance, idle and loading carry neither.
C4_StatusPayload ==
    /\ status = "ready" => (instance # NoInstance /\ error = NoError)
    /\ status = "error" => (error # NoError /\ instance = NoInstance)
    /\ status \in {"idle", "loading"}
          => (instance = NoInstance /\ error = NoError)

C4_Witness ==
    /\ status = "ready"
    /\ instance.kind = "real"
    /\ \E a \in AttemptIds : attempts[a].sig \in aborted

\* C5: the error of the hook is never an abort error, the attempt whose
\* error is shown was not cancelled, and the completion of an attempt whose
\* signal is aborted leaves instance, status and error unchanged.
C5_AbortNeverSurfaces ==
    /\ [](/\ error.code # "FhevmAbortError"
          /\ status = "error"
                => (error.by \in AttemptIds
                    /\ attempts[error.by].sig \notin aborted))
    /\ [][\A a \in AttemptIds :
             (Settles(a) /\ attempts[a].sig \in aborted)
                 => UNCHANGED <<instance, status, error>>]_vars

\* a cancelled attempt has just settled and its outcome was discarded
C5_Witness ==
    /\ discarded
    /\ status # "error"
    /\ \A a \in AttemptIds :
          attempts[a].pc = "done" => attempts[a].sig \in aborted

\* C6: two SDK loads pending at the same time share one outcome (they stay
\* pending together and settle together) and one script element.
C6_ConcurrentLoadsShareOutcome ==
    [][\A a, b \in AttemptIds :
          (a # b /\ attempts[a].pc \in LoadPcs /\ attempts[b].pc \in LoadPcs)
              => /\ (attempts'[a].pc \in LoadPcs)
                        <=> (attempts'[b].pc \in LoadPcs)
                 /\ Cardinality({i \in 1..Len(scripts) : scripts[i].inDom})
                        = 1]_vars

\* C7: after an attempt put the hook in error with a load timeout, the SDK
\* load of an attempt started by a later refresh injects a new script
\* element, so that its outcome comes from a new fetch.
C7_RefreshAfterTimeoutRefetches ==
    [][\A s \in 1..Len(scripts), b \in AttemptIds :
          (/\ scripts[s].timedOut # 0
           /\ scripts[s].timedOut < b
           /\ attempts[scripts[s].timedOut].sig # attempts[b].sig
           /\ attempts[b].pc \notin LoadPcs
           /\ attempts'[b].pc \in LoadPcs)
              => attempts'[b].pc = "loadScript"]_vars

\* refresh() called by the consumer of the hook
RefreshCall ==
    /\ Quiescent
    /\ hookVars' # hookVars
    /\ UNCHANGED <<propVars, reactVars, attempts, envVars>>

\* the commit after a change of provider or chainId, whose effect calls
\* refresh()
RefreshEffect ==
    /\ mounted
    /\ depRefresh # <<provider, chainId>>
    /\ depRefresh' = <<provider, chainId>>

\* the commit in which the main effect runs because refresh() has bumped
\* _providerChanged
MainAfterRefresh ==
    /\ mounted
    /\ depMain[2] # providerChanged
    /\ depMain' = <<isRunning, providerChanged>>

\* C8: refresh() aborts every pending attempt, drops the controller, clears
\* instance and error and sets idle, and schedules the main effect iff a
\* provider is present; the main effect then enters loading with a new
\* attempt iff a provider is present and the hook is enabled.
C8_RefreshCancelsThenReenters ==
    [][/\ (RefreshCall \/ RefreshEffect)
             => /\ \A a \in AttemptIds :
                      attempts[a].pc # "done" => attempts[a].sig \in aborted'
                /\ abortRef' = 0
                /\ instance' = NoInstance
                /\ error' = NoError
                /\ status' = "idle"
                /\ attempts' = attempts
                /\ (providerChanged' # providerChanged)
                       <=> (provider # NoProvider)
       /\ MainAfterRefresh
             => IF enabled /\ provider # NoProvider
                THEN /\ status' = "loading"
                     /\ Len(attempts') = Len(attempts) + 1
                     /\ attempts'[Len(attempts')].pc = "chainId"
                     /\ attempts'[Len(attempts')].prov = provider
                     /\ attempts'[Len(attempts')].sig \notin aborted'
                ELSE /\ status' = "idle"
                     /\ attempts' = attempts]_vars

\* a refresh cancelled a pending attempt and a new attempt is loading
C8_Witness ==
    /\ Quiescent
    /\ status = "loading"
    /\ \E a \in AttemptIds : attempts[a].pc # "done"
                             /\ attempts[a].sig \in aborted
    /\ \E b \in AttemptIds : Live(b)

\* C9: while the hook is in error, the completion of an attempt leaves it
\* in error with the same error.
C9_ErrorNeedsCallerAction ==
    [][(/\ status = "error"
        /\ Quiescent
        /\ UNCHANGED propVars
        /\ Len(attempts') = Len(attempts)
        /\ attempts' # attempts)
           => (status' = "error" /\ error' = error)]_vars

ExpectedNotes ==
    <<"sdk-loading", "sdk-loaded", "sdk-initializing", "sdk-initialized",
      "creating">>

Position(n) == CHOOSE i \in 1..Len(ExpectedNotes) : ExpectedNotes[i] = n

InOrder(notes) ==
    \A i, j \in 1..Len(notes) :
        i < j => Position(notes[i]) < Position(notes[j])

\* C10: on Sepolia, with every external step succeeding and no
\* cancellation, the hook never shows an error, a ready state holds an
\* instance of the real SDK, and the notifications of a pending attempt
\* come in the order sdk-loading, sdk-loaded, sdk-initializing,
\* sdk-initialized, creating.
C10_SepoliaHappyPath ==
    (/\ ~extFail
     /\ aborted = {}
     /\ providerRef = "walletSepolia"
     /\ \A a \in AttemptIds :
           attempts[a].pc # "done" => attempts[a].prov = "walletSepolia")
        => /\ status # "error"
           /\ status = "ready" => instance.kind = "real"
           /\ \A a \in AttemptIds : InOrder(attempts[a].notes)

\* C17: an attempt on a transport that is an object without a callable
\* request never gets past getChainId (no RPC call, SDK load or instance
\* creation), its failure puts the hook in error with that failure, and
\* while the hook shows that failure no new attempt is started unless the
\* caller changed a prop.
C17_InvalidTransportFailsFast ==
    /\ [](\A a \in AttemptIds :
             ~HasRequest(attempts[a].prov) => attempts[a].pc = "chainId")
    /\ [][\A a \in AttemptIds :
             (/\ Thrown(attempts[a])
              /\ Settles(a)
              /\ attempts[a].sig \notin aborted
              /\ attempts[a].prov = providerRef)
                 => (status' = "error" /\ error'.code = "InvalidProvider")]_vars
    /\ [][(/\ status = "error"
            /\ error.code = "InvalidProvider"
            /\ depRefresh = <<provider, chainId>>
            /\ depEnabled = enabled)
               => Len(attempts') = Len(attempts)]_vars

\* ------------------------------------------------------------- fairness
\* a scheduled render is flushed, a responsive Hardhat node answers the
\* three queries, and the 100 ms timer of createFhevmMockInstance fires
HardhatNodeAnswers ==
    /\ WF_vars(\E a \in Attempts : ChainIdReply(a, TRUE))
    /\ WF_vars(\E a \in Attempts : ClientVersionReply(a, "hardhat"))
    /\ WF_vars(\E a \in Attempts : MetadataReply(a, "wellformed"))
    /\ WF_vars(\E a \in Attempts : MockCreated(a))

\* the hook driven with the Hardhat wallet (or no wallet) only: no attempt
\* reaches the SDK loader, whose steps are left out
HardhatInit ==
    /\ Init
    /\ provider \in {"walletHardhat", NoProvider}

HardhatNext ==
    \/ Mount
    \/ EffectPass
    \/ \E p \in {"walletHardhat", NoProvider} : SetProvider(p)
    \/ \E c \in ChainHints : SetChainId(c)
    \/ \E e \in BOOLEAN : SetEnabled(e)
    \/ CallRefresh
    \/ \E a \in Attempts, ok \in BOOLEAN : ChainIdReply(a, ok)
    \/ \E a \in Attempts, v \in ClientVersions : ClientVersionReply(a, v)
    \/ \E a \in Attempts, m \in MetadataReplies : MetadataReply(a, m)
    \/ \E a \in Attempts : MockCreated(a)

HardhatSpec ==
    /\ HardhatInit
    /\ [][HardhatNext]_vars
    /\ WF_vars(EffectPass)
    /\ HardhatNodeAnswers

\* every attempt so far ran against the Hardhat wallet, every reply was the
\* expected one and nothing was cancelled
HardhatRun ==
    /\ ~extFail
    /\ aborted = {}
    /\ providerRef = "walletHardhat"
    /\ \A a \in AttemptIds :
          attempts[a].pc # "done" => attempts[a].prov = "walletHardhat"

MockPcs == {"chainId", "clientVersion", "metadata", "mockCreate"}

\* C11: on the Hardhat chain, with a node that carries the Hardhat marker
\* and answers well-formed metadata and with no cancellation, the hook is
\* never in error, a ready state holds a mock instance, no attempt enters
\* the SDK load and no script is injected, and the hook eventually is ready
\* with a mock instance.
C11_HardhatHappyPath ==
    /\ [](HardhatRun
             => /\ status \in {"idle", "loading", "ready"}
                /\ status = "ready" => instance.kind = "mock"
                /\ \A a \in AttemptIds :
                      attempts[a].pc # "done" => attempts[a].pc \in MockPcs
                /\ scripts = <<>>
                /\ winSdk = 0)
    /\ (mounted /\ enabled /\ provider = "walletHardhat" /\ HardhatRun)
          ~> \/ status = "ready" /\ instance.kind = "mock"
             \/ ~enabled
             \/ provider # "walletHardhat"
             \/ ~HardhatRun

\* the hook is ready with a mock instance after an undisturbed run
C11_Witness ==
    /\ HardhatRun
    /\ Quiescent
    /\ status = "ready"
    /\ instance.kind = "mock"
    /\ \A a \in AttemptIds : attempts[a].pc = "done"

\* ============================================== library: the mock backend
\* the hook side is parked while the library is exercised on its own
hookSide == <<propVars, hookVars, reactVars, attempts, discarded, envVars,
              extFail, assertFailed>>

HookParked ==
    /\ HookInit
    /\ provider = NoProvider
    /\ chainId = SepoliaChainId
    /\ ~enabled

\* ---------------------------------------------------------------- bounds
MaxInputs == 2       \* add calls on one builder

\* a string is the sequence of its characters
HexDigits ==
    <<"0", "1", "2", "3", "4", "5", "6", "7", "8", "9", "a", "b", "c", "d",
      "e", "f">>

HexChars == {HexDigits[i] : i \in 1..Len(HexDigits)}

HexVal(c) == (CHOOSE i \in 1..Len(HexDigits) : HexDigits[i] = c) - 1

\* Number.prototype.toString(16) of an integer >= 0
RECURSIVE toString16(_)
toString16(n) ==
    IF n < Len(HexDigits)
    THEN <<HexDigits[n + 1]>>
    ELSE Append(toString16(n \div Len(HexDigits)),
                HexDigits[(n % Len(HexDigits)) + 1])

\* String.prototype.padStart with a one-character filler
padStart(s, len, ch) ==
    IF Len(s) >= len THEN s ELSE [i \in 1..(len - Len(s)) |-> ch] \o s

\* String.prototype.repeat
RECURSIVE repeat(_, _)
repeat(s, n) == IF n = 0 THEN <<>> ELSE s \o repeat(s, n - 1)

\* String.prototype.substring(from, to), 0-based, to exclusive
substring(s, from, to) ==
    SubSeq(s, from + 1, IF to < Len(s) THEN to ELSE Len(s))

endsWith(s, t) ==
    /\ Len(s) >= Len(t)
    /\ SubSeq(s, Len(s) - Len(t) + 1, Len(s)) = t

\* String.prototype.replace(pat, by) with a string pattern: the first
\* occurrence only
replace(s, pat, by) ==
    LET at == {i \in 1..(Len(s) - Len(pat) + 1) :
                  SubSeq(s, i, i + Len(pat) - 1) = pat}
    IN IF at = {}
       THEN s
       ELSE LET i == CHOOSE x \in at : \A y \in at : x <= y
            IN SubSeq(s, 1, i - 1) \o by \o SubSeq(s, i + Len(pat), Len(s))

RECURSIVE parseDigits(_, _)
parseDigits(s, acc) ==
    IF s = <<>> \/ Head(s) \notin HexChars
    THEN acc
    ELSE parseDigits(Tail(s), acc * Len(HexDigits) + HexVal(Head(s)))

\* parseInt(s, 16) of a string without sign, blanks or 0x prefix: the
\* leading hex digits; NaN (here -1) when there is none
parseInt16(s) ==
    IF s = <<>> \/ Head(s) \notin HexChars THEN -1 ELSE parseDigits(s, 0)

Prefix0x == <<"0", "x">>

\* MockFhevmInstance.encrypt32
encrypt32(value) == Prefix0x \o padStart(toString16(value), 64, "0")

\* MockFhevmInstance.decrypt
decrypt(ciphertext, type) ==
    IF type \in {"bool", "ebool"}
    THEN endsWith(ciphertext, <<"0", "1">>)
    ELSE LET hex == replace(ciphertext, Prefix0x, <<>>)
         IN parseInt16(substring(hex, 0, 8))

\* the handle MockFhevmEncryptedInput.encrypt builds for one input
handleOf(inp) ==
    IF inp.type = "ebool"
    THEN Prefix0x \o repeat(IF inp.value THEN <<"0", "1">> ELSE <<"0", "0">>,
                            32)
    ELSE Prefix0x \o padStart(toString16(inp.value), 64, "0")

\* the handles of MockFhevmEncryptedInput.encrypt
builderEncrypt(ins) == [i \in 1..Len(ins) |-> handleOf(ins[i])]

\* the printable ASCII characters in code order, from the blank (code 32);
\* the grave accent (code 96) by its name
Ascii ==
    <<" ", "!", "\"", "#", "$", "%", "&", "'", "(", ")", "*", "+", ",",
      "-", ".", "/", "0", "1", "2", "3", "4", "5", "6", "7", "8", "9", ":",
      ";", "<", "=", ">", "?", "@", "A", "B", "C", "D", "E", "F", "G", "H",
      "I", "J", "K", "L", "M", "N", "O", "P", "Q", "R", "S", "T", "U", "V",
      "W", "X", "Y", "Z", "[", "\\", "]", "^", "_", "grave", "a", "b",
      "c", "d", "e", "f", "g", "h", "i", "j", "k", "l", "m", "n", "o", "p",
      "q", "r", "s", "t", "u", "v", "w", "x", "y", "z", "{", "|", "}", "~">>

CharCodes ==
    [c \in {Ascii[i] : i \in 1..Len(Ascii)} |->
        31 + (CHOOSE i \in 1..Len(Ascii) : Ascii[i] = c)]

charCodeAt(c) == CharCodes[c]

\* Number.prototype.toString() of an integer >= 0
RECURSIVE toString10(_)
toString10(n) ==
    IF n < 10
    THEN <<HexDigits[n + 1]>>
    ELSE Append(toString10(n \div 10), HexDigits[(n % 10) + 1])

\* Buffer.from(s).toString('hex') of an ASCII string: two digits for the
\* code of each character
RECURSIVE toHex(_)
toHex(s) ==
    IF s = <<>>
    THEN <<>>
    ELSE IF Len(s) = 1
    THEN padStart(toString16(charCodeAt(s[1])), 2, "0")
    ELSE LET half == Len(s) \div 2
         IN toHex(SubSeq(s, 1, half)) \o toHex(SubSeq(s, half + 1, Len(s)))

\* JSON.stringify of a string that needs no escape
jsonString(s) == <<"\"">> \o s \o <<"\"">>

TypeName(type) ==
    CASE type = "euint8" -> <<"e", "u", "i", "n", "t", "8">>
      [] type = "euint16" -> <<"e", "u", "i", "n", "t", "1", "6">>
      [] type = "euint32" -> <<"e", "u", "i", "n", "t", "3", "2">>
      [] type = "euint64" -> <<"e", "u", "i", "n", "t", "6", "4">>
      [] type = "ebool" -> <<"e", "b", "o", "o", "l">>

\* JSON.stringify of one element of this.inputs
jsonInput(inp) ==
    <<"{", "\"", "v", "a", "l", "u", "e", "\"", ":">>
    \o (IF inp.type = "ebool"
        THEN (IF inp.value
              THEN <<"t", "r", "u", "e">>
              ELSE <<"f", "a", "l", "s", "e">>)
        ELSE toString10(inp.value))
    \o <<",", "\"", "t", "y", "p", "e", "\"", ":">>
    \o jsonString(TypeName(inp.type)) \o <<"}">>

\* the elements of a JSON array
RECURSIVE jsonElements(_)
jsonElements(ins) ==
    IF ins = <<>> THEN <<>>
    ELSE IF Len(ins) = 1 THEN jsonInput(Head(ins))
    ELSE jsonInput(Head(ins)) \o <<",">> \o jsonElements(Tail(ins))

\* JSON.stringify(proofData)
jsonProofData(contractAddress, userAddress, ins, timestamp) ==
    <<"{", "\"", "c", "o", "n", "t", "r", "a", "c", "t", "A", "d", "d",
      "r", "e", "s", "s", "\"", ":">>
    \o jsonString(contractAddress)
    \o <<",", "\"", "u", "s", "e", "r", "A", "d", "d", "r", "e", "s", "s", "\"",
  ":">>
    \o jsonString(userAddress)
    \o <<",", "\"", "i", "n", "p", "u", "t", "s", "\"", ":">>
    \o <<"[">> \o jsonElements(ins) \o <<"]">>
    \o <<",", "\"", "t", "i", "m", "e", "s", "t", "a", "m", "p", "\"", ":">>
    \o toString10(timestamp) \o <<"}">>

\* add64 takes a bigint, and JSON.stringify throws a TypeError on a BigInt
hasBigInt(ins) == \E i \in 1..Len(ins) : ins[i].type = "euint64"

NoResult == [threw |-> TRUE, handles |-> <<>>, inputProof |-> <<>>]

\* MockFhevmEncryptedInput.encrypt on a builder, Date.now() reading now
mockEncrypt(contractAddress, userAddress, ins, now) ==
    IF hasBigInt(ins)
    THEN NoResult
    ELSE [threw |-> FALSE,
          handles |-> builderEncrypt(ins),
          inputProof |-> Prefix0x
                         \o toHex(jsonProofData(contractAddress, userAddress,
                                                ins, now))]

\* addresses the tests pass to createEncryptedInput
ContractAddresses == {Prefix0x \o <<"c", d>> : d \in {"1", "2"}}

UserAddresses == {Prefix0x \o <<"a", "b">>}

\* readings of Date.now(), in milliseconds after the first one
Clock == {0, 1}

\* values the tests pass, inside the range of each type (TLC's integers end
\* at 2^31 - 1)
Values8 == {0, 1, 255}
Values16 == {0, 256, 65535}
Values32 == {0, 1, 65536, 2147483647}
Values64 == {0, 255, 2147483647}

\* what encrypt() gave: nothing yet, an exception, or handles and a proof
NoHandles ==
    [called |-> FALSE, threw |-> FALSE, list |-> <<>>, inputProof |-> <<>>]
NoCipher == [plain |-> 0, handle |-> <<>>]
NotDecrypted == [done |-> FALSE, value |-> 0]

MockInit ==
    /\ HookParked
    /\ \E c \in ContractAddresses, u \in UserAddresses :
          lib = [part |-> "mock", contractAddress |-> c, userAddress |-> u,
                 inputs |-> <<>>, handles |-> NoHandles,
                 cipher |-> NoCipher, decrypted |-> NotDecrypted]

\* this.inputs.push of the add methods; the handles of an earlier
\* encrypt() are dropped
Pushed(value, type) ==
    [lib EXCEPT !.inputs = Append(@, [value |-> value, type |-> type]),
                !.handles = NoHandles]

add8(v) ==
    /\ Len(lib.inputs) < MaxInputs
    /\ lib' = Pushed(v, "euint8")
    /\ UNCHANGED hookSide

add16(v) ==
    /\ Len(lib.inputs) < MaxInputs
    /\ lib' = Pushed(v, "euint16")
    /\ UNCHANGED hookSide

add32(v) ==
    /\ Len(lib.inputs) < MaxInputs
    /\ lib' = Pushed(v, "euint32")
    /\ UNCHANGED hookSide

add64(v) ==
    /\ Len(lib.inputs) < MaxInputs
    /\ lib' = Pushed(v, "euint64")
    /\ UNCHANGED hookSide

addBool(b) ==
    /\ Len(lib.inputs) < MaxInputs
    /\ lib' = Pushed(b, "ebool")
    /\ UNCHANGED hookSide

\* MockFhevmEncryptedInput.encrypt while Date.now() reads t
encrypt(t) ==
    /\ ~lib.handles.called
    /\ LET r == mockEncrypt(lib.contractAddress, lib.userAddress, lib.inputs,
                            t)
       IN lib' = [lib EXCEPT !.handles = [called |-> TRUE,
                                          threw |-> r.threw,
                                          list |-> r.handles,
                                          inputProof |-> r.inputProof]]
    /\ UNCHANGED hookSide

\* createEncryptedInput: a new builder
createEncryptedInput(c, u) ==
    /\ lib.inputs # <<>> \/ c # lib.contractAddress
    /\ lib' = [lib EXCEPT !.contractAddress = c, !.userAddress = u,
                          !.inputs = <<>>, !.handles = NoHandles]
    /\ UNCHANGED hookSide

\* instance.encrypt32(v)
CallEncrypt32(v) ==
    /\ lib' = [lib EXCEPT !.cipher = [plain |-> v, handle |-> encrypt32(v)],
                          !.decrypted = NotDecrypted]
    /\ UNCHANGED hookSide

\* instance.decrypt of the handle encrypt32 returned
CallDecrypt ==
    /\ lib.cipher.handle # <<>>
    /\ ~lib.decrypted.done
    /\ lib' = [lib EXCEPT !.decrypted =
                  [done |-> TRUE,
                   value |-> decrypt(lib.cipher.handle, "euint32")]]
    /\ UNCHANGED hookSide

MockNext ==
    \/ \E v \in Values8 : add8(v)
    \/ \E v \in Values16 : add16(v)
    \/ \E v \in Values32 : add32(v)
    \/ \E v \in Values64 : add64(v)
    \/ \E b \in BOOLEAN : addBool(b)
    \/ \E t \in Clock : encrypt(t)
    \/ \E c \in ContractAddresses, u \in UserAddresses :
          createEncryptedInput(c, u)
    \/ \E v \in Values32 : CallEncrypt32(v)
    \/ CallDecrypt

MockSpec == MockInit /\ [][MockNext]_vars

\* C12: decrypt of the handle of encrypt32(v) is v.
C12_MockRoundTrip ==
    (lib.part = "mock" /\ lib.decrypted.done)
        => lib.decrypted.value = lib.cipher.plain

\* the number a string of hex digits stands for: its digits after the
\* leading zeros
NumberOf(digits) ==
    LET nz == {i \in 1..Len(digits) : digits[i] # "0"}
    IN IF nz = {}
       THEN 0
       ELSE parseDigits(SubSeq(digits,
                               CHOOSE i \in nz : \A j \in nz : i <= j,
                               Len(digits)), 0)

\* handle h is 0x and 64 hex digits that stand for the value of an integer
\* input, or that end in 01 exactly for a true ebool input
Encodes(h, inp) ==
    /\ Len(h) = 66
    /\ SubSeq(h, 1, 2) = Prefix0x
    /\ \A i \in 3..Len(h) : h[i] \in HexChars
    /\ IF inp.type = "ebool"
       THEN endsWith(h, <<"0", "1">>) <=> inp.value
       ELSE NumberOf(SubSeq(h, 3, Len(h))) = inp.value

\* C13: encrypt() returns as many handles as inputs were added, and the
\* i-th handle encodes the i-th added value.
C13_BuilderHandles ==
    (lib.part = "mock" /\ lib.handles.called)
        => /\ Len(lib.handles.list) = Len(lib.inputs)
           /\ \A i \in 1..Len(lib.inputs) :
                 Encodes(lib.handles.list[i], lib.inputs[i])

\* ======================================= library: functions without state
\* a call of one function: lib.input holds the arguments, lib.output what
\* it returned
NotReturned == [returned |-> FALSE]

Returned(v) == [returned |-> TRUE, value |-> v]

Called(fn) ==
    /\ lib.part = "pure"
    /\ lib.input.fn = fn
    /\ ~lib.output.returned

\* ------------------------------------------------------- the mock probe
UpperCase ==
    <<"A", "B", "C", "D", "E", "F", "G", "H", "I", "J", "K", "L", "M", "N",
      "O", "P", "Q", "R", "S", "T", "U", "V", "W", "X", "Y", "Z">>

LowerCase ==
    <<"a", "b", "c", "d", "e", "f", "g", "h", "i", "j", "k", "l", "m", "n",
      "o", "p", "q", "r", "s", "t", "u", "v", "w", "x", "y", "z">>

\* String.prototype.toLowerCase
toLowerCase(s) ==
    [i \in 1..Len(s) |->
        IF \E k \in 1..Len(UpperCase) : UpperCase[k] = s[i]
        THEN LowerCase[CHOOSE k \in 1..Len(UpperCase) : UpperCase[k] = s[i]]
        ELSE s[i]]

\* String.prototype.includes
includes(s, t) ==
    \E i \in 1..(Len(s) - Len(t) + 1) : SubSeq(s, i, i + Len(t) - 1) = t

HardhatMarker == <<"h", "a", "r", "d", "h", "a", "t">>

\* answers to web3_clientVersion: a string, a value that is no string, or
\* a failed request
StringReply(text) == [kind |-> "string", text |-> text]

VersionReplies ==
    {StringReply(<<"H", "a", "r", "d", "h", "a", "t", "N", "e", "t", "w",
                   "o", "r", "k", "/", "2">>),
     StringReply(<<"h", "a", "r", "d", "h", "a", "t">>),
     StringReply(<<"e", "d", "r", "/", "H", "A", "R", "D", "H", "A", "T">>),
     StringReply(<<"a", "n", "v", "i", "l", "/", "v", "0", ".", "2">>),
     StringReply(<<"G", "e", "t", "h", "/", "v", "1">>),
     StringReply(<<"h", "a", "r", "d", "h", "a">>),
     StringReply(<<"h", "a", "r", "d", " ", "h", "a", "t">>),
     StringReply(<<>>),
     [kind |-> "number", text |-> <<>>],
     [kind |-> "error", text |-> <<>>]}

\* variant of the probe that asks for the metadata whatever the version is
tryFetchFHEVMHardhatNodeRelayerMetadata_NoVersionCheck(version, metadata) ==
    IF version.kind = "error"
    THEN [result |-> "throw", queried |-> FALSE]
    ELSE [result |-> IF MetadataAccepted(metadata)
                     THEN "metadata" ELSE "absent",
          queried |-> TRUE]

\* tryFetchFHEVMHardhatNodeRelayerMetadata: what it returns (or that it
\* throws) for the two answers of the node, and whether it has sent
\* fhevm_relayer_metadata
tryFetchFHEVMHardhatNodeRelayerMetadata(version, metadata) ==
    IF version.kind = "error"
    THEN [result |-> "throw", queried |-> FALSE]
    ELSE IF version.kind # "string"
            \/ ~includes(toLowerCase(version.text), HardhatMarker)
    THEN [result |-> "absent", queried |-> FALSE]
    ELSE [result |-> IF MetadataAccepted(metadata)
                     THEN "metadata" ELSE "absent",
          queried |-> TRUE]

ProbeInputs ==
    {[fn |-> "probe", version |-> v, metadata |-> m] :
        v \in VersionReplies, m \in MetadataReplies}

CallProbe ==
    /\ Called("probe")
    /\ lib' = [lib EXCEPT !.output =
                  Returned(tryFetchFHEVMHardhatNodeRelayerMetadata(
                               lib.input.version, lib.input.metadata))]
    /\ UNCHANGED hookSide

\* ---------------------------------------------------- isValidRelayerSDK
MethodNames == {"initSDK", "createInstance", "createEIP712", "version"}
OtherNames == {"SepoliaConfig", "__initialized__"}

Candidates ==
    {[type |-> "object", methods |-> m, others |-> o] :
        m \in SUBSET MethodNames, o \in SUBSET OtherNames}
    \cup {[type |-> t, methods |-> {}, others |-> {}] :
             t \in {"undefined", "null", "string", "function"}}

ValidationInputs == {[fn |-> "isValidRelayerSDK", obj |-> c] : c \in Candidates}

CallIsValidRelayerSDK ==
    /\ Called("isValidRelayerSDK")
    /\ lib' = [lib EXCEPT !.output =
                  Returned(isValidRelayerSDKObject(lib.input.obj))]
    /\ UNCHANGED hookSide

\* ---------------------------------------------------------------- resolve
DefaultMockUrl == "http://localhost:8545"

\* a Record<number, string>: a function from chain ids to URLs; undefined
\* is the empty one
NoTable == [c \in {} |-> ""]

MockTables ==
    {NoTable}
    \cup {[c \in {id} |-> "http://127.0.0.1:8545"] :
             id \in {HardhatChainId, SepoliaChainId, 1337}}
    \cup {[c \in {HardhatChainId, 1337} |-> "http://10.0.0.1:8545"]}

\* variant of resolve that looks the chain id up in the default table only
resolve_DefaultTableOnly(providerOrUrl, id, mockChains) ==
    IF id \in DefaultMockChains
    THEN [isMock |-> TRUE, chainId |-> id,
          rpcUrl |-> IF providerOrUrl.kind = "string"
                     THEN providerOrUrl.url ELSE DefaultMockUrl]
    ELSE [isMock |-> FALSE, chainId |-> id,
          rpcUrl |-> IF providerOrUrl.kind = "string"
                     THEN providerOrUrl.url ELSE "undefined"]

\* variant of resolve whose merged table lets the default entry win
resolve_DefaultsLast(providerOrUrl, id, mockChains) ==
    LET rpcUrl == IF providerOrUrl.kind = "string"
                  THEN providerOrUrl.url ELSE "undefined"
        _mockChains ==
            [c \in DefaultMockChains \cup DOMAIN mockChains |->
                IF c \in DefaultMockChains
                THEN DefaultMockUrl ELSE mockChains[c]]
    IN IF id \in DOMAIN _mockChains
       THEN [isMock |-> TRUE, chainId |-> id,
             rpcUrl |-> IF rpcUrl = "undefined"
                        THEN _mockChains[id] ELSE rpcUrl]
       ELSE [isMock |-> FALSE, chainId |-> id, rpcUrl |-> rpcUrl]

\* resolve, once getChainId has returned the chain id
resolve(providerOrUrl, id, mockChains) ==
    LET rpcUrl == IF providerOrUrl.kind = "string"
                  THEN providerOrUrl.url ELSE "undefined"
        _mockChains ==
            [c \in DefaultMockChains \cup DOMAIN mockChains |->
                IF c \in DOMAIN mockChains
                THEN mockChains[c] ELSE DefaultMockUrl]
    IN IF id \in DOMAIN _mockChains
       THEN [isMock |-> TRUE, chainId |-> id,
             rpcUrl |-> IF rpcUrl = "undefined"
                        THEN _mockChains[id] ELSE rpcUrl]
       ELSE [isMock |-> FALSE, chainId |-> id, rpcUrl |-> rpcUrl]

Transports ==
    {[kind |-> "eip1193", url |-> "undefined"],
     [kind |-> "string", url |-> "http://node:8545"]}

ResolveInputs ==
    {[fn |-> "resolve", providerOrUrl |-> p, chainId |-> c, mockChains |-> t] :
        p \in Transports,
        c \in {HardhatChainId, SepoliaChainId, 1337, 1},
        t \in MockTables}

CallResolve ==
    /\ Called("resolve")
    /\ lib' = [lib EXCEPT !.output =
                  Returned(resolve(lib.input.providerOrUrl,
                                   lib.input.chainId,
                                   lib.input.mockChains))]
    /\ UNCHANGED hookSide

\* ------------------------------------- the configuration of createInstance
\* what localStorage holds for the ACL address when the configuration is
\* built
CacheContents == {"absent", "fresh", "stale", "corrupt"}

\* relayerSDK.SepoliaConfig, as the SDK publishes it
SdkConfigs ==
    {[aclContractAddress |-> "0xacl"],
     [aclContractAddress |-> "0xacl", publicKey |-> "sdkKey",
      publicParams |-> "sdkParams"]}

\* { ...base, ...top }
Spread(base, top) ==
    [k \in DOMAIN base \cup DOMAIN top |->
        IF k \in DOMAIN top THEN top[k] ELSE base[k]]

\* variant of the configuration that takes the key of a fresh cache entry
instanceConfig_CachedKey(sepoliaConfig, providerOrUrl, cache) ==
    Spread(sepoliaConfig,
           [network |-> providerOrUrl,
            publicKey |-> IF cache = "fresh" THEN "cached" ELSE "",
            publicParams |-> IF cache = "fresh" THEN "cached" ELSE ""])

\* the config object createFhevmInstance passes to createInstance; cache is
\* the content of the store at that time
instanceConfig(sepoliaConfig, providerOrUrl, cache) ==
    Spread(sepoliaConfig,
           [network |-> providerOrUrl, publicKey |-> "", publicParams |-> ""])

ConfigInputs ==
    {[fn |-> "instanceConfig", sepoliaConfig |-> s, network |-> p,
      cache |-> c] :
        s \in SdkConfigs, p \in {"walletSepolia"}, c \in CacheContents}

CallInstanceConfig ==
    /\ Called("instanceConfig")
    /\ lib' = [lib EXCEPT !.output =
                  Returned(instanceConfig(lib.input.sepoliaConfig,
                                          lib.input.network,
                                          lib.input.cache))]
    /\ UNCHANGED hookSide

\* ------------------------------------- the then / catch handlers of a call
\* instance, status and error when the promise settles
PriorStates ==
    {[instance |-> NoInstance, status |-> "loading", error |-> NoError],
     [instance |-> NoInstance, status |-> "idle", error |-> NoError],
     [instance |-> [by |-> 2, kind |-> "real"], status |-> "ready",
      error |-> NoError]}

\* the closure of the handlers (thisSignal, thisProvider), _providerRef at
\* the time the promise settles, and what the promise settles with
HandlerInputs ==
    {[fn |-> "handlers", signalAborted |-> ab, thisProvider |-> p,
      providerRef |-> q, res |-> r, prior |-> s] :
        ab \in BOOLEAN, p \in {"walletSepolia", "walletHardhat"},
        q \in {"walletSepolia", "walletHardhat", NoProvider},
        r \in {"real", "mock", "UnsupportedNetwork", "FhevmAbortError"},
        s \in PriorStates}

\* the hook and the settled call of a handler input; the call is attempt 1
\* with signal 1
HandlerHook(i) ==
    [instance |-> i.prior.instance, status |-> i.prior.status,
     error |-> i.prior.error, isRunning |-> TRUE, providerChanged |-> 1,
     abortRef |-> IF i.signalAborted THEN 0 ELSE 1,
     providerRef |-> i.providerRef, chainIdRef |-> SepoliaChainId,
     nCtrl |-> 1, aborted |-> IF i.signalAborted THEN {1} ELSE {},
     attempts |-> <<[NewAttempt(1, i.thisProvider)
                        EXCEPT !.pc = "done", !.res = i.res]>>]

CallHandlers ==
    /\ Called("handlers")
    /\ LET h0 == HandlerHook(lib.input)
           h == Handled(h0, 1, h0.attempts[1])
       IN lib' = [lib EXCEPT !.output =
                     Returned([instance |-> h.instance, status |-> h.status,
                               error |-> h.error,
                               assertFailed |->
                                   AssertFails(h0, h0.attempts[1])])]
    /\ UNCHANGED hookSide

\* ------------------------------------------------- RelayerSDKLoader.load
\* the page when load() is called: window.relayerSDK absent or one of the
\* kinds of object, and up to two script elements for the CDN URL
PageObjects ==
    {<<>>} \cup {<<[kind |-> k, init |-> FALSE]>> : k \in SdkKinds}

ScriptElements ==
    {[inDom |-> d, st |-> st, timedOut |-> 0] :
        d \in BOOLEAN, st \in {"loading", "loaded", "failed"}}

PageScripts ==
    {<<>>} \cup {<<s>> : s \in ScriptElements}
    \cup {<<s, t>> : s \in ScriptElements, t \in ScriptElements}

LoadInputs ==
    {i \in {[fn |-> "load", winSdk |-> w, sdkObjs |-> objs, scripts |-> scr] :
               w \in 0..1, objs \in PageObjects, scr \in PageScripts} :
        i.winSdk <= Len(i.sdkObjs)}

CallLoad ==
    /\ Called("load")
    /\ lib' = [lib EXCEPT !.output =
                  Returned(loaderLoad(NewAttempt(1, "walletSepolia"),
                                      lib.input.winSdk, lib.input.sdkObjs,
                                      lib.input.scripts))]
    /\ UNCHANGED hookSide

\* ------------------------------------- MockFhevmEncryptedInput.encrypt
\* what the add methods can have pushed
Pushes ==
    {[value |-> v, type |-> "euint8"] : v \in Values8}
    \cup {[value |-> v, type |-> "euint16"] : v \in Values16}
    \cup {[value |-> v, type |-> "euint32"] : v \in Values32}
    \cup {[value |-> v, type |-> "euint64"] : v \in Values64}
    \cup {[value |-> b, type |-> "ebool"] : b \in BOOLEAN}

\* a builder and the readings of Date.now() in two encrypt() calls on it
EncryptInputs ==
    {i \in [fn : {"encrypt"}, contractAddress : ContractAddresses,
            userAddress : UserAddresses,
            inputs : UNION {[1..n -> Pushes] : n \in 0..MaxInputs},
            now : Clock, later : Clock] :
        i.now <= i.later}

\* encrypt() twice on the same builder
CallEncryptTwice ==
    /\ Called("encrypt")
    /\ lib' = [lib EXCEPT !.output =
                  Returned(<<mockEncrypt(lib.input.contractAddress,
                                         lib.input.userAddress,
                                         lib.input.inputs, lib.input.now),
                             mockEncrypt(lib.input.contractAddress,
                                         lib.input.userAddress,
                                         lib.input.inputs,
                                         lib.input.later)>>)]
    /\ UNCHANGED hookSide

\* ------------------------------------------------------------------ spec
PureCall(i) == [part |-> "pure", input |-> i, output |-> NotReturned]

PureInit ==
    /\ HookParked
    /\ \/ \E i \in ProbeInputs : lib = PureCall(i)
       \/ \E i \in ValidationInputs : lib = PureCall(i)
       \/ \E i \in ResolveInputs : lib = PureCall(i)
       \/ \E i \in ConfigInputs : lib = PureCall(i)
       \/ \E i \in HandlerInputs : lib = PureCall(i)
       \/ \E i \in LoadInputs : lib = PureCall(i)
       \/ \E i \in EncryptInputs : lib = PureCall(i)

PureNext ==
    \/ CallProbe
    \/ CallIsValidRelayerSDK
    \/ CallResolve
    \/ CallInstanceConfig
    \/ CallHandlers
    \/ CallLoad
    \/ CallEncryptTwice

PureSpec == PureInit /\ [][PureNext]_vars

HasReturned(fn) ==
    /\ lib.part = "pure"
    /\ lib.input.fn = fn
    /\ lib.output.returned

\* the answer is no string, or a string that holds the marker at no
\* position, whatever the case of its letters
LacksMarker(version) ==
    /\ version.kind # "error"
    /\ version.kind = "string"
          => \A i \in 1..(Len(version.text) - Len(HardhatMarker) + 1) :
                toLowerCase(SubSeq(version.text, i,
                                   i + Len(HardhatMarker) - 1))
                    # HardhatMarker

\* C14: for a client version without the Hardhat marker the probe returns
\* undefined, does not throw and does not send the metadata query.
C14_ProbeAbsentWithoutMarker ==
    (HasReturned("probe") /\ LacksMarker(lib.input.version))
        => /\ lib.output.value.result = "absent"
           /\ ~lib.output.value.queried

\* the probe has returned for a node that is no Hardhat node but would have
\* answered the metadata query
C14_Witness ==
    /\ HasReturned("probe")
    /\ lib.input.version.kind = "string"
    /\ Len(lib.input.version.text) > Len(HardhatMarker)
    /\ LacksMarker(lib.input.version)
    /\ lib.input.metadata = "wellformed"

\* the minimum bar of the specification
MinimumBar(obj) ==
    /\ obj.type = "object"
    /\ \/ obj.methods \cap {"initSDK", "createInstance"} # {}
       \/ Cardinality(obj.methods) >= 3

\* C15: isValidRelayerSDK is true exactly for an object with initSDK or
\* createInstance or with three or more function members, and SepoliaConfig
\* does not change the result.
C15_ValidRelayerSDK ==
    HasReturned("isValidRelayerSDK")
        => /\ lib.output.value <=> MinimumBar(lib.input.obj)
           /\ lib.output.value
                 = isValidRelayerSDKObject(
                       [lib.input.obj EXCEPT !.others = @ \ {"SepoliaConfig"}])

\* C16: resolve returns isMock exactly when the chain id is 31337 or a key
\* of the caller's table, and returns a descriptor of the same chain id in
\* every case.
C16_ResolveIsMock ==
    HasReturned("resolve")
        => /\ lib.output.value.isMock
                 <=> (lib.input.chainId
                         \in {HardhatChainId} \cup DOMAIN lib.input.mockChains)
           /\ lib.output.value.chainId = lib.input.chainId
           /\ DOMAIN lib.output.value = {"isMock", "chainId", "rpcUrl"}

\* a chain id that only the caller's table names was resolved as mock
C16_Witness ==
    /\ HasReturned("resolve")
    /\ lib.input.chainId = 1337
    /\ lib.input.chainId \in DOMAIN lib.input.mockChains
    /\ lib.output.value.isMock

\* C20: the configuration passed to createInstance has empty publicKey and
\* publicParams and is the same for every content of the public-key cache.
C20_CacheIndependent ==
    HasReturned("instanceConfig")
        => /\ lib.output.value.publicKey = ""
           /\ lib.output.value.publicParams = ""
           /\ \A c \in CacheContents :
                 instanceConfig(lib.input.sepoliaConfig, lib.input.network, c)
                     = lib.output.value

\* the configuration was built while the store held a fresh entry and the
\* SDK published a key of its own
C20_Witness ==
    /\ HasReturned("instanceConfig")
    /\ lib.input.cache = "fresh"
    /\ "publicKey" \in DOMAIN lib.input.sepoliaConfig

\* a chain id that is neither in the mock table nor the supported network
UnsupportedChain(p) == ChainOf(p) \notin DefaultMockChains \cup {SepoliaChainId}

\* this step of attempt a, not cancelled, finds its chain unsupported: the
\* chain id is answered and is neither mock nor Sepolia, or the node of a
\* mock chain answers without the marker, or its metadata is not well-formed
FindsUnsupported(a) ==
    /\ attempts[a].sig \notin aborted
    /\ \/ /\ attempts[a].pc = "chainId"
          /\ HasRequest(attempts[a].prov)
          /\ UnsupportedChain(attempts[a].prov)
          /\ attempts'[a].pc # "chainId"
          /\ ~extFail'
       \/ /\ attempts[a].pc = "clientVersion"
          /\ attempts'[a].pc \notin {"clientVersion", "metadata"}
       \/ /\ attempts[a].pc = "metadata"
          /\ attempts'[a].pc # "metadata"
          /\ ~extFail
          /\ extFail'

\* C18: an attempt on a chain that is neither a mock chain with valid
\* metadata nor Sepolia ends with the unsupported-network error, the hook
\* shows that error, and the attempt never reaches the SDK loader, initSDK
\* or createInstance.
C18_UnsupportedNetworkEnds ==
    /\ [](\A a \in AttemptIds :
             ChainOf(attempts[a].prov) # SepoliaChainId
                 => attempts[a].pc
                       \notin LoadPcs \cup {"sdkInit", "createInstance"})
    /\ [][\A a \in AttemptIds :
             FindsUnsupported(a)
                 => /\ attempts'[a].pc = "done"
                    /\ attempts[a].prov = providerRef
                          => /\ status' = "error"
                             /\ error'.code = "UnsupportedNetwork"]_vars

\* ------------------------------------------------------ PublicKeyStorage
CACHE_DURATION == 24 * 60 * 60 * 1000

PUBLIC_KEY ==
    <<"f", "h", "e", "v", "m", "_", "p", "u", "b", "l", "i", "c", "_", "k",
      "e", "y">>

getCacheKey(aclAddress) == PUBLIC_KEY \o <<"_">> \o toLowerCase(aclAddress)

\* two spellings of one address and a second address
AclAddresses ==
    {<<"0", "x", "A", "b">>, <<"0", "x", "a", "b">>, <<"0", "x", "c", "d">>}

CacheKeys == {getCacheKey(acl) : acl \in AclAddresses}

\* what localStorage holds under a key: nothing (getItem gives null), the
\* JSON text of a cache entry, or a string of another kind
NoItem == [kind |-> "absent", timestamp |-> 0]

CacheEntry(t) == [kind |-> "entry", timestamp |-> t]

\* strings another writer can leave under a key: the empty string, text
\* that is no JSON, the text null, an object without timestamp, and entries
\* stamped at time 0 or in the future
ForeignItems(now) ==
    {[kind |-> k, timestamp |-> 0] :
        k \in {"empty", "garbage", "null", "noTimestamp"}}
    \cup {CacheEntry(0), CacheEntry(now + CACHE_DURATION)}

Null == [kind |-> "null", timestamp |-> 0]

Completed(value, store) == [threw |-> FALSE, value |-> value, store |-> store]

Throws(store) == [threw |-> TRUE, value |-> Null, store |-> store]

\* variant of the try block that returns the parsed entry whatever its age
tryGet_NoExpiry(store, aclAddress, now) ==
    LET cached == store[getCacheKey(aclAddress)]
    IN IF cached.kind \in {"absent", "empty"}
       THEN Completed(Null, store)
       ELSE IF cached.kind \in {"garbage", "null"}
       THEN Throws(store)
       ELSE Completed(cached, store)

\* the try block of get: JSON.parse throws on text that is no JSON, reading
\* timestamp of null throws, and a missing timestamp makes the difference
\* NaN, which is not greater than CACHE_DURATION
tryGet(store, aclAddress, now) ==
    LET cacheKey == getCacheKey(aclAddress)
        cached == store[cacheKey]
    IN IF cached.kind \in {"absent", "empty"}
       THEN Completed(Null, store)
       ELSE IF cached.kind \in {"garbage", "null"}
       THEN Throws(store)
       ELSE IF /\ cached.kind = "entry"
               /\ now - cached.timestamp > CACHE_DURATION
       THEN Completed(Null, [store EXCEPT ![cacheKey] = NoItem])
       ELSE Completed(cached, store)

\* get: the catch block turns every exception into null
get(store, aclAddress, now) ==
    LET r == tryGet(store, aclAddress, now)
    IN IF r.threw THEN Completed(Null, r.store) ELSE r

\* the longest run of clock steps
MaxTicks == 3

\* the clock advances by a millisecond or by a day
Delays == {1, CACHE_DURATION}

NotCalled ==
    [called |-> FALSE, aclAddress |-> <<>>, cached |-> NoItem,
     value |-> Null, threw |-> FALSE]

StorageInit ==
    /\ HookParked
    /\ lib = [part |-> "storage",
              localStorage |-> [k \in CacheKeys |-> NoItem],
              now |-> 0, ticks |-> 0, got |-> NotCalled]

\* Date.now() moves on
Tick(d) ==
    /\ lib.ticks < MaxTicks
    /\ lib' = [lib EXCEPT !.now = @ + d, !.ticks = @ + 1, !.got = NotCalled]
    /\ UNCHANGED hookSide

\* PublicKeyStorage.set
CallSet(aclAddress) ==
    /\ lib' = [lib EXCEPT
                  !.localStorage[getCacheKey(aclAddress)] = CacheEntry(lib.now),
                  !.got = NotCalled]
    /\ UNCHANGED hookSide

\* PublicKeyStorage.clear
CallClear(aclAddress) ==
    /\ lib.localStorage[getCacheKey(aclAddress)] # NoItem
    /\ lib' = [lib EXCEPT !.localStorage[getCacheKey(aclAddress)] = NoItem,
                          !.got = NotCalled]
    /\ UNCHANGED hookSide

\* another script or the user writes the key
ForeignWrite(k, item) ==
    /\ item \in ForeignItems(lib.now)
    /\ lib' = [lib EXCEPT !.localStorage[k] = item, !.got = NotCalled]
    /\ UNCHANGED hookSide

\* PublicKeyStorage.get
CallGet(aclAddress) ==
    /\ LET r == get(lib.localStorage, aclAddress, lib.now)
       IN lib' = [lib EXCEPT
                     !.localStorage = r.store,
                     !.got = [called |-> TRUE, aclAddress |-> aclAddress,
                              cached |->
                                  lib.localStorage[getCacheKey(aclAddress)],
                              value |-> r.value, threw |-> r.threw]]
    /\ UNCHANGED hookSide

StorageNext ==
    \/ \E d \in Delays : Tick(d)
    \/ \E acl \in AclAddresses : CallSet(acl)
    \/ \E acl \in AclAddresses : CallClear(acl)
    \/ \E k \in CacheKeys :
          \E item \in ForeignItems(lib.now) : ForeignWrite(k, item)
    \/ \E acl \in AclAddresses : CallGet(acl)

StorageSpec == StorageInit /\ [][StorageNext]_vars

\* C19: get never returns an entry stamped more than 24 hours before the
\* read; it removes such an entry and returns null; for a missing or
\* unparsable entry it returns null; it never throws.
C19_ExpiredNeverReturned ==
    (lib.part = "storage" /\ lib.got.called)
        => LET cached == lib.got.cached
               value == lib.got.value
               age == lib.now - cached.timestamp
           IN /\ ~lib.got.threw
              /\ value.kind = "entry"
                    => lib.now - value.timestamp <= 24 * 60 * 60 * 1000
              /\ (cached.kind = "entry" /\ age > 24 * 60 * 60 * 1000)
                    => /\ value = Null
                       /\ lib.localStorage[getCacheKey(lib.got.aclAddress)]
                             = NoItem
              /\ cached.kind \in {"absent", "garbage"} => value = Null

\* get has read, under another spelling of the address, an entry stamped
\* one millisecond more than a day ago
C19_Witness ==
    /\ lib.part = "storage"
    /\ lib.got.called
    /\ lib.got.cached.kind = "entry"
    /\ lib.now - lib.got.cached.timestamp = CACHE_DURATION + 1
    /\ lib.got.aclAddress # toLowerCase(lib.got.aclAddress)
    /\ lib.got.value = Null

\* C21: no two createFhevmInstance calls started by the hook share an
\* AbortSignal.
C21_FreshSignalPerAttempt ==
    \A a, b \in AttemptIds : a # b => attempts[a].sig # attempts[b].sig

\* the positions in which an attempt has started mock instance creation,
\* the SDK load, initSDK or createInstance
StartedSteps ==
    {"mockCreate", "loadScript", "loadExisting", "sdkInit", "createInstance"}

\* C22: an attempt whose signal is aborted starts no further step: after a
\* suspension point it does not go on to mock instance creation, the SDK
\* load, initSDK or createInstance.
C22_NoStepAfterAbort ==
    [][\A a \in AttemptIds :
          (/\ attempts[a].sig \in aborted
           /\ attempts'[a].pc # attempts[a].pc)
              => attempts'[a].pc \notin StartedSteps]_vars

\* the call rejects with the abort error
RejectsAborted(out) ==
    /\ out.att.pc = "done"
    /\ out.att.res = "FhevmAbortError"

\* C23: when the signal of a pending attempt is aborted and the step it
\* waits for then completes, createFhevmInstance rejects with
\* FhevmAbortError, on the mock branch and on the real branch.
C23_AbortedStepRejectsAborted ==
    \A a \in AttemptIds :
        (attempts[a].pc # "done" /\ attempts[a].sig \in aborted)
            => LET att == attempts[a]
               IN /\ (att.pc = "chainId" /\ HasRequest(att.prov))
                        => RejectsAborted(afterResolve(att, aborted, winSdk,
                                                       sdkObjs, scripts))
                  /\ att.pc = "mockCreate"
                        => RejectsAborted(afterMockCreated(att, aborted,
                                                           winSdk, sdkObjs,
                                                           scripts))
                  /\ (/\ att.pc \in {"loadSettle", "loadExisting"}
                      /\ isValidFhevmWindow(winSdk, sdkObjs))
                        => RejectsAborted(afterAwait(att, aborted, winSdk,
                                                     sdkObjs, scripts,
                                                     "sdk-loaded", "init"))
                  /\ att.pc = "sdkInit"
                        => RejectsAborted(afterAwait(att, aborted, winSdk,
                                                     sdkObjs, scripts,
                                                     "sdk-initialized",
                                                     "create"))
                  /\ att.pc = "createInstance"
                        => RejectsAborted(afterCreateInstance(att, aborted,
                                                              winSdk, sdkObjs,
                                                              scripts))

\* C24: when the client-version query of a current, non-cancelled attempt
\* fails at network level, the attempt rejects with the connectivity error
\* WEB3_CLIENTVERSION_ERROR and the hook goes into error with that error.
C24_ClientVersionFailureSurfaces ==
    \A a \in AttemptIds :
        (/\ attempts[a].pc = "clientVersion"
         /\ attempts[a].sig \notin aborted
         /\ attempts[a].prov = providerRef)
            => LET out == afterClientVersion(attempts[a], "error", aborted,
                                             winSdk, sdkObjs, scripts)
                   h == Handled([Hook EXCEPT !.attempts[a] = out.att], a,
                                out.att)
               IN /\ out.att.pc = "done"
                  /\ out.att.res = "WEB3_CLIENTVERSION_ERROR"
                  /\ h.status = "error"
                  /\ h.error.code = "WEB3_CLIENTVERSION_ERROR"

\* C25: the probe returns metadata only for a reply whose three addresses
\* are present and well-formed; for any other reply of a node that answered
\* the version query it returns undefined and does not throw.
C25_ProbeMetadataWellFormed ==
    HasReturned("probe")
        => /\ lib.output.value.result = "metadata"
                 => lib.input.metadata = "wellformed"
           /\ (/\ lib.input.version.kind # "error"
               /\ lib.input.metadata # "wellformed")
                 => lib.output.value.result = "absent"

\* attempt a calls initSDK in this step
CallsInitSDK(a) ==
    /\ attempts[a].pc # "sdkInit"
    /\ attempts'[a].pc = "sdkInit"

\* C26: as long as nothing has failed, initSDK is called on an SDK object
\* only if it was not called on that object before: the object is not
\* initialized and no other call of initSDK on it is pending.
C26_InitSDKAtMostOnce ==
    [][\A a \in AttemptIds :
          (CallsInitSDK(a) /\ ~extFail)
              => /\ ~sdkObjs[attempts'[a].obj].init
                 /\ \A b \in AttemptIds \ {a} :
                       ~(/\ attempts[b].pc = "sdkInit"
                         /\ attempts[b].obj = attempts'[a].obj)]_vars

\* C27: when a call that was not cancelled settles and the transport it
\* was started with is not the current one, instance, status and error
\* stay as they are.
C27_StaleTransportIgnored ==
    (/\ HasReturned("handlers")
     /\ ~lib.input.signalAborted
     /\ lib.input.thisProvider # lib.input.providerRef)
        => /\ lib.output.value.instance = lib.input.prior.instance
           /\ lib.output.value.status = lib.input.prior.status
           /\ lib.output.value.error = lib.input.prior.error

\* a call that was not cancelled resolved with an instance for a transport
\* that is no longer the current one
C27_Witness ==
    /\ HasReturned("handlers")
    /\ ~lib.input.signalAborted
    /\ lib.input.thisProvider # lib.input.providerRef
    /\ lib.input.res = "real"
    /\ lib.input.prior.status = "loading"
    /\ lib.output.value.assertFailed

\* 0x followed by 40 hex characters
WellFormedAddress(address) ==
    /\ address.type = "string"
    /\ Len(address.text) = 42
    /\ address.text[1] = "0"
    /\ address.text[2] = "x"
    /\ \A i \in 3..42 :
          address.text[i]
              \in {"0", "1", "2", "3", "4", "5", "6", "7", "8", "9", "a",
                   "b", "c", "d", "e", "f", "A", "B", "C", "D", "E", "F"}

\* initSDK of attempt a resolves with true in this step while the attempt
\* is not cancelled and window.relayerSDK publishes a malformed ACL address
ReachesMalformedAcl(a) ==
    /\ attempts[a].pc = "sdkInit"
    /\ attempts'[a].pc # "sdkInit"
    /\ ~sdkObjs[attempts[a].obj].init
    /\ sdkObjs'[attempts[a].obj].init
    /\ attempts[a].sig \notin aborted
    /\ winSdk # 0
    /\ sdkObjs[winSdk].kind # "empty"
    /\ ~WellFormedAddress(aclContractAddress(sdkObjs[winSdk].kind))

\* C28: createInstance is only ever called on an SDK object whose ACL
\* address is 0x followed by 40 hex characters; an attempt that finds
\* another address fails with the validation error.
C28_MalformedAclRejected ==
    /\ [](\A a \in AttemptIds :
             attempts[a].pc = "createInstance"
                 => WellFormedAddress(
                        aclContractAddress(sdkObjs[attempts[a].obj].kind)))
    /\ [][\A a \in AttemptIds :
             ReachesMalformedAcl(a)
                 => /\ attempts'[a].pc = "done"
                    /\ attempts[a].prov = providerRef
                          => /\ status' = "error"
                             /\ error'.code = "InvalidAclAddress"]_vars

\* the hook shows the validation error of an attempt on an SDK object with a
\* malformed ACL address, and no createInstance call is pending
C28_Witness ==
    /\ status = "error"
    /\ error.code = "InvalidAclAddress"
    /\ winSdk # 0
    /\ ~WellFormedAddress(aclContractAddress(sdkObjs[winSdk].kind))
    /\ \A a \in AttemptIds : attempts[a].pc # "createInstance"

\* C29: load() that finds an invalid window.relayerSDK deletes it, removes
\* every script element for the CDN URL and injects a new one; load() that
\* finds a valid window.relayerSDK resolves and leaves the page as it is.
C29_LoadClearsInvalidSdk ==
    HasReturned("load")
        => LET in == lib.input
               out == lib.output.value
               found == in.winSdk # 0
               valid == isValidRelayerSDK(in.sdkObjs[in.winSdk].kind)
           IN /\ (found /\ ~valid)
                    => /\ out.winSdk = 0
                       /\ Len(out.scripts) = Len(in.scripts) + 1
                       /\ \A i \in 1..Len(in.scripts) : ~out.scripts[i].inDom
                       /\ out.scripts[Len(out.scripts)].inDom
                       /\ out.scripts[Len(out.scripts)].st = "loading"
                       /\ out.att.pc = "loadScript"
                       /\ out.att.script = Len(out.scripts)
              /\ (found /\ valid)
                    => /\ out.scripts = in.scripts
                       /\ out.winSdk = in.winSdk
                       /\ out.att.pc \notin LoadPcs
                       /\ \E i \in 1..Len(out.att.notes) :
                             out.att.notes[i] = "sdk-loaded"

\* load() found an invalid object and a script element in the document
C29_Witness ==
    /\ HasReturned("load")
    /\ lib.input.winSdk # 0
    /\ ~isValidRelayerSDK(lib.input.sdkObjs[lib.input.winSdk].kind)
    /\ \E i \in 1..Len(lib.input.scripts) : lib.input.scripts[i].inDom
    /\ lib.output.value.winSdk = 0

\* C30: load() fulfils only through the validation of window.relayerSDK
\* that a timer runs after the script's load event (or, for a script
\* element found in the document, after the wait): the load event alone
\* never fulfils it, a call goes on past the load only if that validation
\* found a valid object, and if it found none load() rejects.
C30_LoadFulfilsAfterValidation ==
    [][\A a \in AttemptIds :
          /\ (attempts[a].pc = "loadScript" /\ attempts'[a].pc # "loadScript")
                => attempts'[a].pc \in {"loadSettle", "done"}
          /\ (/\ attempts[a].pc \in {"loadSettle", "loadExisting"}
              /\ attempts'[a].pc \in {"sdkInit", "createInstance"})
                => isValidFhevmWindow(winSdk, sdkObjs)
          /\ (/\ attempts[a].pc \in {"loadSettle", "loadExisting"}
              /\ attempts'[a].pc # attempts[a].pc
              /\ ~isValidFhevmWindow(winSdk, sdkObjs))
                => /\ attempts'[a].pc = "done"
                   /\ (/\ attempts[a].sig \notin aborted
                       /\ attempts[a].prov = providerRef)
                         => /\ status' = "error"
                            /\ error'.code
                                  \in {"LoadInvalid", "ScriptExistsInvalid"}]_vars

\* an attempt injected the script, the script has loaded, the validation
\* after the settle delay passed and the attempt has gone on to initSDK
C30_Witness ==
    \E a \in AttemptIds :
        /\ attempts[a].pc = "sdkInit"
        /\ attempts[a].script # 0
        /\ scripts[attempts[a].script].st = "loaded"
        /\ isValidFhevmWindow(winSdk, sdkObjs)

\* ===================================== library: RelayerSDKLoader on a page
\* loader instances of one page, and load() / forceReload() calls in all
MaxLoaders == 2
MaxCalls == 2

Absent == "absent"

LoaderIds == 1..MaxLoaders

\* isValidFhevmWindow(window) for a page whose window.relayerSDK is sdk
ValidGlobal(sdk) ==
    /\ sdk # Absent
    /\ isValidFhevmWindow(1, <<[kind |-> sdk, init |-> FALSE]>>)

\* a promise made by load(): who made it and in which call, its state, the
\* script element it listens to and the timer that will settle it
LoadPromise(l, n, st, timer, script) ==
    [loader |-> l, call |-> n, st |-> st, err |-> "none", timer |-> timer,
     script |-> script]

Rejected(p, err) == [p EXCEPT !.st = "rejected", !.err = err,
                              !.timer = "none"]

Fulfilled(p) == [p EXCEPT !.st = "fulfilled", !.timer = "none"]

\* variant of _performLoad that does not look for a script element
_performLoad_AlwaysInject(pg, l, n) ==
    [pg EXCEPT
        !.scripts = Append(@, [inDom |-> TRUE, st |-> "loading"]),
        !.promises = Append(@, LoadPromise(l, n, "pending", "timeout",
                                           Len(pg.scripts) + 1))]

\* _performLoad: wait 100 ms on a script element found in the document,
\* else create one, listen to it, start the 30 s timer and append it
_performLoad(pg, l, n) ==
    IF ScriptInDom(pg.scripts)
    THEN [pg EXCEPT
             !.promises = Append(@, LoadPromise(l, n, "pending", "existing",
                                                0))]
    ELSE [pg EXCEPT
             !.scripts = Append(@, [inDom |-> TRUE, st |-> "loading"]),
             !.promises = Append(@, LoadPromise(l, n, "pending", "timeout",
                                                Len(pg.scripts) + 1))]

\* load(): the page after the call and the promise returned
load(pg, l, n) ==
    IF pg.loaders[l] # 0
    THEN [page |-> pg, returned |-> pg.loaders[l]]
    ELSE LET present == pg.relayerSDK # Absent
             invalid == present /\ ~isValidRelayerSDK(pg.relayerSDK)
             pg1 == IF invalid
                    THEN [pg EXCEPT !.relayerSDK = Absent,
                                    !.scripts = RemoveScripts(@),
                                    !.loaders[l] = 0]
                    ELSE pg
         IN IF present /\ ~invalid
            THEN [page |-> [pg EXCEPT
                               !.promises =
                                   Append(@, LoadPromise(l, n, "fulfilled",
                                                         "none", 0))],
                  returned |-> Len(pg.promises) + 1]
            ELSE LET pg2 == _performLoad(pg1, l, n)
                 IN [page |-> [pg2 EXCEPT !.loaders[l] = Len(pg2.promises)],
                     returned |-> Len(pg2.promises)]

\* variant of forceReload that keeps the cached promise
forceReload_KeepPromise(pg, l, n) ==
    load([pg EXCEPT !.scripts = RemoveScripts(@),
                    !.relayerSDK = Absent],
         l, n)

\* forceReload(): forget the promise, remove the script elements, delete
\* window.relayerSDK, load()
forceReload(pg, l, n) ==
    load([pg EXCEPT !.loaders[l] = 0,
                    !.scripts = RemoveScripts(@),
                    !.relayerSDK = Absent],
         l, n)

\* the last step: a call (its name, its loader, its number, the promise it
\* returned) or an event
NoOp == [name |-> "none", on |-> 0, n |-> 0, returned |-> 0]

\* the page of the loaders
Page ==
    [relayerSDK |-> lib.relayerSDK, scripts |-> lib.scripts,
     promises |-> lib.promises, loaders |-> lib.loaders]

SetPage(pg, op) ==
    /\ lib' = [part |-> "loader", relayerSDK |-> pg.relayerSDK,
               scripts |-> pg.scripts, promises |-> pg.promises,
               loaders |-> pg.loaders,
               calls |-> IF op = NoOp THEN lib.calls ELSE op.n, op |-> op]
    /\ UNCHANGED hookSide

LoaderInit ==
    /\ HookParked
    /\ lib = [part |-> "loader", relayerSDK |-> Absent, scripts |-> <<>>,
              promises |-> <<>>, loaders |-> [l \in LoaderIds |-> 0],
              calls |-> 0, op |-> NoOp]

\* some code of the page calls load() on loader l
CallLoaderLoad(l) ==
    /\ lib.calls < MaxCalls
    /\ LET r == load(Page, l, lib.calls + 1)
       IN SetPage(r.page, [name |-> "load", on |-> l, n |-> lib.calls + 1,
                           returned |-> r.returned])

\* some code of the page calls forceReload() on loader l
CallForceReload(l) ==
    /\ lib.calls < MaxCalls
    /\ LET r == forceReload(Page, l, lib.calls + 1)
       IN SetPage(r.page, [name |-> "forceReload", on |-> l,
                           n |-> lib.calls + 1, returned |-> r.returned])

\* the wrapped onload of script s: the script has set window.relayerSDK;
\* clear the 30 s timer and start the 50 ms one
OnLoad(s, kind) ==
    /\ s \in 1..Len(lib.scripts)
    /\ lib.scripts[s].st = "loading"
    /\ SetPage([Page EXCEPT
                   !.relayerSDK = kind,
                   !.scripts[s].st = "loaded",
                   !.promises = [p \in 1..Len(@) |->
                                    IF @[p].script = s
                                       /\ @[p].timer = "timeout"
                                    THEN [@[p] EXCEPT !.timer = "settle"]
                                    ELSE @[p]]],
               NoOp)

\* the wrapped onerror of script s: clear the 30 s timer and reject
OnError(s) ==
    /\ s \in 1..Len(lib.scripts)
    /\ lib.scripts[s].st = "loading"
    /\ SetPage([Page EXCEPT
                   !.scripts[s].st = "failed",
                   !.promises = [p \in 1..Len(@) |->
                                    IF @[p].script = s
                                       /\ @[p].timer = "timeout"
                                    THEN Rejected(@[p], "LoadFailed")
                                    ELSE @[p]]],
               NoOp)

\* variant of the 30 s timer that rejects like onerror
TimeoutFires_AsLoadFailed(p) ==
    /\ p \in 1..Len(lib.promises)
    /\ lib.promises[p].timer = "timeout"
    /\ SetPage([Page EXCEPT !.promises[p] = Rejected(@, "LoadFailed")],
               NoOp)

\* the 30 s timer fires before onload and onerror
TimeoutFires(p) ==
    /\ p \in 1..Len(lib.promises)
    /\ lib.promises[p].timer = "timeout"
    /\ SetPage([Page EXCEPT !.promises[p] = Rejected(@, "LoadTimeout")],
               NoOp)

\* the 50 ms timer after onload
SettleFires(p) ==
    /\ p \in 1..Len(lib.promises)
    /\ lib.promises[p].timer = "settle"
    /\ SetPage([Page EXCEPT
                   !.promises[p] = IF ValidGlobal(lib.relayerSDK)
                                   THEN Fulfilled(@)
                                   ELSE Rejected(@, "LoadInvalid")],
               NoOp)

\* variant of the 100 ms timer that resolves without validating
ExistingFires_NoValidation(p) ==
    /\ p \in 1..Len(lib.promises)
    /\ lib.promises[p].timer = "existing"
    /\ SetPage([Page EXCEPT !.promises[p] = Fulfilled(@)],
               NoOp)

\* the 100 ms timer of the branch that found a script element
ExistingFires(p) ==
    /\ p \in 1..Len(lib.promises)
    /\ lib.promises[p].timer = "existing"
    /\ SetPage([Page EXCEPT
                   !.promises[p] = IF ValidGlobal(lib.relayerSDK)
                                   THEN Fulfilled(@)
                                   ELSE Rejected(@, "ScriptExistsInvalid")],
               NoOp)

PromiseIds == 1..MaxCalls

LoaderNext ==
    \/ \E l \in LoaderIds : CallLoaderLoad(l)
    \/ \E l \in LoaderIds : CallForceReload(l)
    \/ \E s \in PromiseIds, k \in SdkKinds : OnLoad(s, k)
    \/ \E s \in PromiseIds : OnError(s)
    \/ \E p \in PromiseIds : TimeoutFires(p)
    \/ \E p \in PromiseIds : SettleFires(p)
    \/ \E p \in PromiseIds : ExistingFires(p)

LoaderSpec == LoaderInit /\ [][LoaderNext]_vars

\* C31: whatever the page holds (a valid, an invalid or no window.relayerSDK,
\* a pending load), the state right after forceReload() on a loader has a
\* promise made by this very call cached in the loader, no script element
\* of an earlier load left in the document, no window.relayerSDK, and one
\* new script element that is loading and that the new promise listens to.
C31_ForceReloadReloads ==
    lib.op.name = "forceReload"
        => LET made == lib.op.returned
               last == Len(lib.scripts)
           IN /\ made = Len(lib.promises)
              /\ lib.promises[made].call = lib.op.n
              /\ lib.loaders[lib.op.on] = made
              /\ lib.promises[made].st = "pending"
              /\ lib.promises[made].timer = "timeout"
              /\ lib.promises[made].script = last
              /\ last > 0
              /\ lib.scripts[last].inDom
              /\ lib.scripts[last].st = "loading"
              /\ \A i \in 1..(last - 1) : ~lib.scripts[i].inDom
              /\ lib.relayerSDK = Absent

\* forceReload() was called on a loader whose earlier load is still pending
C31_Witness ==
    /\ lib.op.name = "forceReload"
    /\ Len(lib.scripts) >= 2
    /\ \E p \in 1..(Len(lib.promises) - 1) :
          /\ lib.promises[p].loader = lib.op.on
          /\ lib.promises[p].st = "pending"

\* the error event of script s is delivered in this step
ErrorEvent(s) ==
    /\ lib.scripts[s].st = "loading"
    /\ lib'.scripts[s].st = "failed"

\* C32: a settled load promise never changes again; a load waiting for its
\* script rejects with the fetch-failure error on the script's error event
\* and with the timeout error when its 30 s timer fires, and neither step
\* adds a script element or a load.
C32_LoadSettlesOnce ==
    [][\A p \in 1..Len(lib.promises) :
          LET was == lib.promises[p]
              now == lib'.promises[p]
          IN /\ was.st # "pending" => (now.st = was.st /\ now.err = was.err)
             /\ (was.timer = "timeout" /\ ErrorEvent(was.script))
                   => (now.st = "rejected" /\ now.err = "LoadFailed")
             /\ (was.timer = "timeout" /\ now.st # "pending")
                   => /\ now.st = "rejected"
                      /\ now.err = IF ErrorEvent(was.script)
                                   THEN "LoadFailed" ELSE "LoadTimeout"
                      /\ Len(lib'.scripts) = Len(lib.scripts)
                      /\ Len(lib'.promises) = Len(lib.promises)
                      /\ lib'.loaders = lib.loaders
                      /\ \A i \in 1..Len(lib.scripts) :
                            lib'.scripts[i].inDom = lib.scripts[i].inDom]_vars

\* one load has timed out and another has failed on the error event
C32_Witness ==
    /\ \E p \in 1..Len(lib.promises) : lib.promises[p].err = "LoadTimeout"
    /\ \E q \in 1..Len(lib.promises) : lib.promises[q].err = "LoadFailed"

\* C39: the document never holds more than one script element for the CDN
\* URL, whatever load() and forceReload() calls the loaders of the page get.
C39_AtMostOneScriptElement ==
    Cardinality({i \in 1..Len(lib.scripts) : lib.scripts[i].inDom}) <= 1

\* two loaders have loaded, a script element has been replaced
C39_Witness ==
    /\ \A l \in 1..2 : lib.loaders[l] # 0
    /\ Len(lib.scripts) >= 2
    /\ Cardinality({i \in 1..Len(lib.scripts) : lib.scripts[i].inDom}) = 1

\* load() is called on loader l in this step
LoadCall(l) ==
    /\ lib'.calls = lib.calls + 1
    /\ lib'.op.name = "load"
    /\ lib'.op.on = l

\* C40: load() on a loader without cached promise whose _performLoad finds
\* a script element in the document (window.relayerSDK absent) leaves the
\* script elements as they are and returns a new pending promise that
\* listens to no script; that promise settles in one step only, fulfilled
\* if window.relayerSDK is valid in that step and rejected with the
\* script-exists error if not.
C40_ExistingScriptBranch ==
    [][/\ \A l \in LoaderIds :
             (/\ LoadCall(l)
              /\ lib.loaders[l] = 0
              /\ lib.relayerSDK = Absent
              /\ ScriptInDom(lib.scripts))
                 => /\ lib'.scripts = lib.scripts
                    /\ lib'.op.returned = Len(lib.promises) + 1
                    /\ Len(lib'.promises) = Len(lib.promises) + 1
                    /\ lib'.promises[lib'.op.returned].st = "pending"
                    /\ lib'.promises[lib'.op.returned].timer = "existing"
                    /\ lib'.promises[lib'.op.returned].script = 0
       /\ \A p \in 1..Len(lib.promises) :
             lib.promises[p].timer = "existing"
                 => \/ lib'.promises[p] = lib.promises[p]
                    \/ /\ lib'.promises[p].timer = "none"
                       /\ lib'.scripts = lib.scripts
                       /\ IF ValidGlobal(lib.relayerSDK)
                          THEN lib'.promises[p].st = "fulfilled"
                          ELSE /\ lib'.promises[p].st = "rejected"
                               /\ lib'.promises[p].err
                                     = "ScriptExistsInvalid"]_vars

\* a load that found the script element of a pending load has rejected while
\* that script is still loading
C40_Witness ==
    \E p \in 1..Len(lib.promises) :
        /\ lib.promises[p].err = "ScriptExistsInvalid"
        /\ \E s \in 1..Len(lib.scripts) :
              lib.scripts[s].inDom /\ lib.scripts[s].st = "loading"

\* C33: two encrypt() calls on the same builder give the same outcome: the
\* same handles and the same inputProof.
C33_EncryptDeterministic ==
    HasReturned("encrypt") => lib.output.value[1] = lib.output.value[2]

\* resolve was called for a default mock chain with a caller's table that
\* has an entry for it
OverridesDefault ==
    /\ HasReturned("resolve")
    /\ lib.input.chainId \in DefaultMockChains
    /\ lib.input.chainId \in DOMAIN lib.input.mockChains

\* C34: for a chain id of the default mock table the caller's entry for it
\* is the RPC URL that resolve returns for the probe, and resolve returns
\* isMock for a default mock chain id whatever the caller's table.
C34_CallerEntryIsProbeUrl ==
    /\ OverridesDefault
          => lib.output.value.rpcUrl = lib.input.mockChains[lib.input.chainId]
    /\ (HasReturned("resolve") /\ lib.input.chainId \in DefaultMockChains)
          => lib.output.value.isMock

\* C34 (amended): for a chain id of the default mock table the caller's
\* entry for it replaces the default URL: it is the RPC URL that resolve
\* returns for the probe when the transport is an EIP-1193 object, while a
\* transport given as a URL string is itself the RPC URL returned; resolve
\* returns isMock for a default mock chain id whatever the caller's table.
C34_CallerEntryReplacesDefault ==
    /\ OverridesDefault
          => lib.output.value.rpcUrl
                = IF lib.input.providerOrUrl.kind = "string"
                  THEN lib.input.providerOrUrl.url
                  ELSE lib.input.mockChains[lib.input.chainId]
    /\ (HasReturned("resolve") /\ lib.input.chainId \in DefaultMockChains)
          => lib.output.value.isMock

\* an EIP-1193 transport on chain 31337 with a caller's entry for 31337: the
\* URL returned is the caller's and not the default one
C34_Witness ==
    /\ OverridesDefault
    /\ lib.input.providerOrUrl.kind = "eip1193"
    /\ lib.output.value.isMock
    /\ lib.output.value.rpcUrl # DefaultMockUrl

\* C36: the controller in _abortControllerRef is never an aborted one: when
\* the main effect starts an attempt, the controller it takes from the ref
\* (or creates) has a signal that is not aborted, and every attempt that has
\* not settled and whose signal is not aborted holds the signal of that
\* controller.
C36_ControllerNotAborted ==
    /\ abortRef # 0 => (abortRef \in 1..nCtrl /\ abortRef \notin aborted)
    /\ status = "loading" => abortRef # 0
    /\ \A a \in AttemptIds : Live(a) => attempts[a].sig = abortRef

\* the main effect has started an attempt on a second controller after the
\* first one was aborted
C36_Witness ==
    /\ status = "loading"
    /\ abortRef >= 2
    /\ aborted # {}
    /\ \E a \in AttemptIds : Live(a) /\ attempts[a].sig = abortRef

\* C37: no handler of the hook has found, with its signal not aborted, a
\* transport other than the one in _providerRef: every attempt that has not
\* settled and whose signal is not aborted was started on the transport that
\* _providerRef holds.
C37_ProviderAssertionHolds ==
    /\ ~assertFailed
    /\ \A a \in AttemptIds : Live(a) => attempts[a].prov = providerRef

\* after a change of transport that aborted the first controller, an attempt
\* on the new transport has settled and its instance is in the hook
C37_Witness ==
    /\ status = "ready"
    /\ instance.by >= 2
    /\ aborted # {}
    /\ provider = providerRef
    /\ ~assertFailed

\* ------------------------------------------------- every call settles
\* a step of the hook that waits for no caller: a scheduled render is
\* flushed, the rejection of a call that threw at once is delivered, an
\* external call settles one way or the other: an RPC query, the import of
\* the mock module, the script (load event, error event or the 30 s timer),
\* a timer of the loader, initSDK, createInstance
PendingWork ==
    \/ EffectPass
    \/ \E a \in Attempts : GetChainIdThrows(a)
    \/ \E a \in Attempts, ok \in BOOLEAN : ChainIdReply(a, ok)
    \/ \E a \in Attempts, v \in ClientVersions : ClientVersionReply(a, v)
    \/ \E a \in Attempts, m \in MetadataReplies : MetadataReply(a, m)
    \/ \E a \in Attempts : MockCreated(a)
    \/ \E s \in Attempts, k \in SdkKinds : ScriptLoad(s, k)
    \/ \E s \in Attempts : ScriptError(s)
    \/ \E a \in Attempts : LoadTimeout(a)
    \/ \E a \in Attempts : SettleTimer(a)
    \/ \E a \in Attempts : ExistingTimer(a)
    \/ \E a \in Attempts, r \in InitResults : InitReply(a, r)
    \/ \E a \in Attempts, ok \in BOOLEAN : CreateReply(a, ok)

\* the hook with every pending step of it taken in the end
SettlingSpec ==
    /\ Init
    /\ [][Next]_vars
    /\ WF_vars(PendingWork)

\* C35: when every external call settles, every attempt whose signal is not
\* aborted settles and the hook does not stay loading: again and again it
\* is in a state where no attempt with a signal that is not aborted is
\* pending and the status is ready, error or (after a cancellation) idle.
C35_LoadingEnds ==
    []<>(/\ \A a \in AttemptIds : ~Live(a)
         /\ status \in {"ready", "error", "idle"})

\* an attempt has settled on its own and the hook has left loading for error
C35_Witness ==
    /\ status = "error"
    /\ error.by # 0
    /\ \A a \in AttemptIds : attempts[a].pc = "done"
    /\ aborted = {}

\* ============================================ library: the PrivacyPad contract
\* projects created in all, and the last block timestamp
MaxProjects == 2
MaxTime == 3

FEE_DENOMINATOR == 10000
InitialFeePercentage == 250

\* the externally owned accounts that send transactions; the first deploys
\* the contract, so it is owner() and the initial feeRecipient
Deployer == "alice"
Accounts == {"alice", "bob"}

\* wei amounts of the caps and of msg.value, scaled so that the fee is not 0
Amounts == {40, 80}
Names == {"", "pad"}
HardCaps == {80}
MinContributions == {40}
MaxContributions == {80}
ProjectIds == 1..MaxProjects

\* the fields of struct Project that a transaction reads again (name,
\* description, tokenAddress and the contributors array are only stored)
NewProject(sender, softCap, hardCap, startTime, endTime, minC, maxC) ==
    [projectOwner |-> sender, softCap |-> softCap, hardCap |-> hardCap,
     totalRaised |-> 0, startTime |-> startTime, endTime |-> endTime,
     minContribution |-> minC, maxContribution |-> maxC,
     isActive |-> TRUE, isFinalized |-> FALSE,
     contributions |-> [a \in Accounts |-> 0]]

\* modifier validProject
validProject(id) == id > 0 /\ id <= lib.projectCounter

\* modifier onlyProjectOwner
onlyProjectOwner(id, sender) == lib.projects[id].projectOwner = sender

\* recipient.call{value: v}(""): an externally owned account accepts, so the
\* call fails only when the contract holds less than v
CallSucceeds(v) == v <= lib.balance

\* a transaction that does not revert: the new storage and balance, and the
\* ledgers of what each project took in and handed out
Commit(projects, balance, contributed, paidOut, op) ==
    /\ lib' = [lib EXCEPT !.projects = projects, !.balance = balance,
                          !.contributed = contributed, !.paidOut = paidOut,
                          !.op = op]
    /\ UNCHANGED hookSide

PadInit ==
    /\ HookParked
    /\ lib = [part |-> "pad", now |-> 0, projectCounter |-> 0,
              projects |-> <<>>, balance |-> 0,
              platformFeePercentage |-> InitialFeePercentage,
              contributed |-> <<>>, paidOut |-> <<>>, withdrawn |-> <<>>,
              op |-> [name |-> "constructor", id |-> 0]]

createProject(sender, name, softCap, hardCap, startTime, endTime, minC, maxC) ==
    /\ lib.projectCounter < MaxProjects
    /\ name # ""
    /\ softCap > 0
    /\ hardCap >= softCap
    /\ startTime > lib.now
    /\ endTime > startTime
    /\ minC > 0
    /\ maxC >= minC
    /\ lib' = [lib EXCEPT
                 !.projectCounter = @ + 1,
                 !.projects = Append(@, NewProject(sender, softCap, hardCap,
                                        startTime, endTime, minC, maxC)),
                 !.contributed = Append(@, 0),
                 !.paidOut = Append(@, 0),
                 !.withdrawn = Append(@, FALSE),
                 !.op = [name |-> "createProject",
                         id |-> lib.projectCounter + 1]]
    /\ UNCHANGED hookSide

contribute(sender, id, value) ==
    /\ validProject(id)
    /\ LET project == lib.projects[id]
           currentContribution == project.contributions[sender]
       IN /\ project.isActive
          /\ lib.now >= project.startTime
          /\ lib.now <= project.endTime
          /\ value >= project.minContribution
          /\ value <= project.maxContribution
          /\ project.totalRaised + value <= project.hardCap
          /\ currentContribution + value <= project.maxContribution
          /\ Commit([lib.projects EXCEPT
                       ![id].contributions[sender] = @ + value,
                       ![id].totalRaised = @ + value],
                    lib.balance + value,
                    [lib.contributed EXCEPT ![id] = @ + value],
                    lib.paidOut,
                    [name |-> "contribute", id |-> id])

finalizeProject(sender, id) ==
    /\ validProject(id)
    /\ onlyProjectOwner(id, sender)
    /\ LET project == lib.projects[id]
       IN /\ project.isActive
          /\ \/ lib.now > project.endTime
             \/ project.totalRaised >= project.hardCap
          /\ ~project.isFinalized
          /\ Commit([lib.projects EXCEPT ![id].isFinalized = TRUE,
                                         ![id].isActive = FALSE],
                    lib.balance, lib.contributed, lib.paidOut,
                    [name |-> "finalizeProject", id |-> id])

withdrawFunds(sender, id) ==
    /\ validProject(id)
    /\ onlyProjectOwner(id, sender)
    /\ LET project == lib.projects[id]
           platformFee == (project.totalRaised * lib.platformFeePercentage)
                              \div FEE_DENOMINATOR
           projectAmount == project.totalRaised - platformFee
       IN /\ project.isFinalized
          /\ project.totalRaised >= project.softCap
          /\ project.totalRaised > 0
          /\ CallSucceeds(platformFee)
          /\ CallSucceeds(platformFee + projectAmount)
          /\ lib' = [lib EXCEPT
                       !.projects[id].totalRaised = 0,
                       !.balance = @ - platformFee - projectAmount,
                       !.paidOut[id] = @ + platformFee + projectAmount,
                       !.withdrawn[id] = TRUE,
                       !.op = [name |-> "withdrawFunds", id |-> id]]
          /\ UNCHANGED hookSide

refund(sender, id) ==
    /\ validProject(id)
    /\ LET project == lib.projects[id]
           contribution == project.contributions[sender]
       IN /\ project.isFinalized
          /\ project.totalRaised < project.softCap
          /\ contribution > 0
          /\ CallSucceeds(contribution)
          /\ Commit([lib.projects EXCEPT ![id].contributions[sender] = 0],
                    lib.balance - contribution,
                    lib.contributed,
                    [lib.paidOut EXCEPT ![id] = @ + contribution],
                    [name |-> "refund", id |-> id])

\* onlyOwner: the deployer takes the whole balance of the contract
emergencyWithdraw(sender) ==
    /\ sender = Deployer
    /\ lib.balance > 0
    /\ Commit(lib.projects, 0, lib.contributed, lib.paidOut,
              [name |-> "emergencyWithdraw", id |-> 0])

\* a later block: block.timestamp grows
Mine ==
    /\ lib.now < MaxTime
    /\ lib' = [lib EXCEPT !.now = @ + 1,
                          !.op = [name |-> "block", id |-> 0]]
    /\ UNCHANGED hookSide

PadNext ==
    \/ \E sender \in Accounts, name \in Names, softCap \in Amounts,
          hardCap \in HardCaps,
          startTime, endTime \in 1..MaxTime, minC \in MinContributions,
          maxC \in MaxContributions :
           createProject(sender, name, softCap, hardCap, startTime, endTime,
                         minC, maxC)
    \/ \E sender \in Accounts, id \in ProjectIds, value \in Amounts :
           contribute(sender, id, value)
    \/ \E sender \in Accounts, id \in ProjectIds : finalizeProject(sender, id)
    \/ \E sender \in Accounts, id \in ProjectIds : withdrawFunds(sender, id)
    \/ \E sender \in Accounts, id \in ProjectIds : refund(sender, id)
    \/ \E sender \in Accounts : emergencyWithdraw(sender)
    \/ Mine

PadSpec == PadInit /\ [][PadNext]_vars

\* C38: for every project the ETH paid out through withdrawFunds and refund
\* never exceeds what was contributed to it, and refund does not succeed on
\* a project whose raised funds the owner has withdrawn
C38_PayoutsWithinContributions ==
    lib.part = "pad" =>
        /\ \A id \in 1..lib.projectCounter :
               lib.paidOut[id] <= lib.contributed[id]
        /\ lib.op.name = "refund" => ~lib.withdrawn[lib.op.id]

====
